---- MODULE Spec2Model ----
(***************************************************************************)
(* A model of the wildcard trie of src/src/index.ts: the node graph, the   *)
(* hard seek (insertion), the soft seek (lookup), deletion with clean up,  *)
(* and matching over an input iterator with iterator teeing.               *)
(*                                                                         *)
(* The node graph is a heap: a sequence of Map objects, a reference being  *)
(* the index of the object and 0 standing for "no entry" (Map.get giving   *)
(* undefined).  The root is object 1.                                      *)
(***************************************************************************)
EXTENDS Integers, Sequences, FiniteSets, TLC

\* ------------------------------------------------------------------ bounds
\* tokens a path argument stands for (a literal 1, w(k) k), and tokens of a
\* match input
MaxLen == 3
\* Map objects reachable from the root
MaxNodes == 4
\* cap of the #size counter
MaxSize == 3

\* ------------------------------------------------------------- data model
Undef == "undefined"

Values == {"a", "b"}

\* the literal tokens paths are made of
Keys == {1}

\* a token no path of the model uses as a literal
OtherToken == 0

Tokens == Keys \cup {OtherToken}

\* The values w can be called with. The integers of the model are the safe
\* integers; the other values (NaN, a fraction, an infinity, an integer beyond
\* Number.MAX_SAFE_INTEGER, a string) are told apart by name only.
SafeInteger(n) == [isSafeInteger |-> TRUE, n |-> n, name |-> ""]

NotSafeInteger(name) == [isSafeInteger |-> FALSE, n |-> 0, name |-> name]

NotSafeIntegers ==
  {NotSafeInteger(name) : name \in {"NaN", "1.5", "-0.5", "Infinity", "2^53", "'2'"}}

\* w with a fault: a safe integer is taken as the count whatever its sign
w_anyInteger(args) ==
  LET count == IF args = <<>> THEN SafeInteger(1) ELSE args[1]
  IN  IF count.isSafeInteger
      THEN [wild |-> TRUE, count |-> count.n, key |-> 0]
      ELSE [wild |-> TRUE, count |-> 1, key |-> 0]

\* w(count = 1) called with the arguments args (none or one): a wildcard
\* segment, the count falling back to 1 when invalid
wCall(args) ==
  LET count == IF args = <<>> THEN SafeInteger(1) ELSE args[1]
  IN  IF count.isSafeInteger /\ count.n > 0
      THEN [wild |-> TRUE, count |-> count.n, key |-> 0]
      ELSE [wild |-> TRUE, count |-> 1, key |-> 0]

\* w(count) for an integer count
w(count) == wCall(<<SafeInteger(count)>>)

\* a literal segment (any value that is not a WildcardSegment)
Lit(k) == [wild |-> FALSE, count |-> 0, key |-> k]

isWildcardSegment(segment) == segment.wild

\* the calls of w that make the segments of the paths: w(), w(c) for the
\* counts -1..MaxLen, of which -1 and 0 are invalid, and w of a value that is
\* not a safe integer
WArgs ==
  {<<>>} \cup {<<SafeInteger(c)>> : c \in -1..MaxLen}
         \cup {<<x>> : x \in NotSafeIntegers}

Segments == {Lit(k) : k \in Keys} \cup {wCall(args) : args \in WArgs}

\* the number of input tokens a segment stands for
SegLen(segment) == IF isWildcardSegment(segment) THEN segment.count ELSE 1

RECURSIVE PathLen(_)
PathLen(path) ==
  IF path = <<>> THEN 0 ELSE SegLen(Head(path)) + PathLen(Tail(path))

RECURSIVE SeqsUpTo(_, _)
SeqsUpTo(S, n) ==
  IF n = 0 THEN {<<>>}
  ELSE LET shorter == SeqsUpTo(S, n - 1)
       IN  shorter \cup {Append(p, s) : p \in {q \in shorter : Len(q) = n - 1}, s \in S}

Paths == {p \in SeqsUpTo(Segments, MaxLen) : PathLen(p) <= MaxLen}

Inputs == SeqsUpTo(Tokens, MaxLen)

\* new Map(): no data, no wildcard edge, no wildcard count, no literal edge;
\* lit holds the entries of the literal keys, a key without entry being
\* outside its domain
NewMap ==
  [hasData |-> FALSE, data |-> Undef, wild |-> 0,
   hasCnt |-> FALSE, cnt |-> 0, lit |-> [k \in {} |-> 0]]

\* node.set(key, childNode) for a literal key
MapSet(n, key, childNode) ==
  [n EXCEPT !.lit = [k \in DOMAIN n.lit \cup {key} |->
                       IF k = key THEN childNode ELSE n.lit[k]]]

\* node.get(key) for a literal key
NodeGet(n, key) == IF key \in DOMAIN n.lit THEN n.lit[key] ELSE 0

isWildcardCountNode(n) == n.hasCnt

\* childNode.get(wildcardCountSymbol) ?? 1
CountOr1(n) == IF n.hasCnt THEN n.cnt ELSE 1

\* ------------------------------------------------- the reachable node graph
RECURSIVE Preorder(_, _), PreorderLits(_, _, _)
Preorder(h, n) ==
  <<n>> \o (IF h[n].wild # 0 THEN Preorder(h, h[n].wild) ELSE <<>>)
        \o PreorderLits(h, n, DOMAIN h[n].lit)

PreorderLits(h, n, ks) ==
  IF ks = {} THEN <<>>
  ELSE LET k == CHOOSE x \in ks : \A y \in ks : x <= y
       IN  (IF h[n].lit[k] # 0 THEN Preorder(h, h[n].lit[k]) ELSE <<>>)
           \o PreorderLits(h, n, ks \ {k})

\* The objects reachable from the root, renumbered in preorder (wildcard edge
\* first, then literal keys ascending): unreachable objects are garbage, and
\* two heaps with equal graphs become equal values.
Reachable(h) ==
  LET ord == Preorder(h, 1)
      idx(i) == IF i = 0 THEN 0 ELSE CHOOSE j \in 1..Len(ord) : ord[j] = i
  IN  [j \in 1..Len(ord) |->
        [h[ord[j]] EXCEPT !.wild = idx(@),
                          !.lit = [k \in DOMAIN h[ord[j]].lit |->
                                     idx(h[ord[j]].lit[k])]]]

\* ------------------------------------------------------------- resolveNode
\* resolveNode with a fault: on a split the two run lengths are swapped
resolveNode_swappedSplit(st) ==
  LET nextNode == Len(st.h) + 1
      reset(h, node) ==
        [st EXCEPT !.h = h, !.node = node, !.nodeWildcardCount = 0,
                   !.pathWildcardCount = 0, !.parentNode = 0]
  IN  IF st.nodeWildcardCount < st.pathWildcardCount
      THEN LET diffCount == st.pathWildcardCount - st.nodeWildcardCount
               h1 == Append(st.h, [NewMap EXCEPT !.hasCnt = TRUE, !.cnt = diffCount])
               h2 == [h1 EXCEPT ![st.node].wild = nextNode]
           IN  reset(h2, nextNode)
      ELSE IF st.nodeWildcardCount > st.pathWildcardCount
      THEN LET diffCount == st.nodeWildcardCount - st.pathWildcardCount
               h1 == Append(st.h, [NewMap EXCEPT !.hasCnt = TRUE, !.cnt = diffCount])
               h2 == [h1 EXCEPT ![st.node].hasCnt = TRUE,
                                ![st.node].cnt = st.h[st.node].cnt - diffCount]
               h3 == [h2 EXCEPT ![st.parentNode].wild = nextNode]
               h4 == [h3 EXCEPT ![nextNode].wild = st.node]
           IN  reset(h4, nextNode)
      ELSE reset(st.h, st.node)

\* resolveNode with a fault: on a split the original node keeps its whole
\* count
resolveNode_countKept(st) ==
  LET nextNode == Len(st.h) + 1
      reset(h, node) ==
        [st EXCEPT !.h = h, !.node = node, !.nodeWildcardCount = 0,
                   !.pathWildcardCount = 0, !.parentNode = 0]
  IN  IF st.nodeWildcardCount < st.pathWildcardCount
      THEN LET diffCount == st.pathWildcardCount - st.nodeWildcardCount
               h1 == Append(st.h, [NewMap EXCEPT !.hasCnt = TRUE, !.cnt = diffCount])
               h2 == [h1 EXCEPT ![st.node].wild = nextNode]
           IN  reset(h2, nextNode)
      ELSE IF st.nodeWildcardCount > st.pathWildcardCount
      THEN LET diffCount == st.nodeWildcardCount - st.pathWildcardCount
               h1 == Append(st.h, [NewMap EXCEPT !.hasCnt = TRUE,
                                                 !.cnt = st.h[st.node].cnt - diffCount])
               h3 == [h1 EXCEPT ![st.parentNode].wild = nextNode]
               h4 == [h3 EXCEPT ![nextNode].wild = st.node]
           IN  reset(h4, nextNode)
      ELSE reset(st.h, st.node)

\* resolveNode with a fault: no split, a path that ends inside a run node ends
\* at that node
resolveNode_noShrink(st) ==
  LET nextNode == Len(st.h) + 1
      reset(h, node) ==
        [st EXCEPT !.h = h, !.node = node, !.nodeWildcardCount = 0,
                   !.pathWildcardCount = 0, !.parentNode = 0]
  IN  IF st.nodeWildcardCount < st.pathWildcardCount
      THEN LET diffCount == st.pathWildcardCount - st.nodeWildcardCount
               h1 == Append(st.h, [NewMap EXCEPT !.hasCnt = TRUE, !.cnt = diffCount])
               h2 == [h1 EXCEPT ![st.node].wild = nextNode]
           IN  reset(h2, nextNode)
      ELSE reset(st.h, st.node)

\* resolveNode with a fault: on a split the new node is not linked to the rest
\* of the run
resolveNode_dropTail(st) ==
  LET nextNode == Len(st.h) + 1
      reset(h, node) ==
        [st EXCEPT !.h = h, !.node = node, !.nodeWildcardCount = 0,
                   !.pathWildcardCount = 0, !.parentNode = 0]
  IN  IF st.nodeWildcardCount < st.pathWildcardCount
      THEN LET diffCount == st.pathWildcardCount - st.nodeWildcardCount
               h1 == Append(st.h, [NewMap EXCEPT !.hasCnt = TRUE, !.cnt = diffCount])
               h2 == [h1 EXCEPT ![st.node].wild = nextNode]
           IN  reset(h2, nextNode)
      ELSE IF st.nodeWildcardCount > st.pathWildcardCount
      THEN LET diffCount == st.nodeWildcardCount - st.pathWildcardCount
               h1 == Append(st.h, [NewMap EXCEPT !.hasCnt = TRUE,
                                                 !.cnt = st.h[st.node].cnt - diffCount])
               h2 == [h1 EXCEPT ![st.node].hasCnt = TRUE, ![st.node].cnt = diffCount]
               h3 == [h2 EXCEPT ![st.parentNode].wild = nextNode]
           IN  reset(h3, nextNode)
      ELSE reset(st.h, st.node)

resolveNode(st) ==
  LET nextNode == Len(st.h) + 1
      reset(h, node) ==
        [st EXCEPT !.h = h, !.node = node, !.nodeWildcardCount = 0,
                   !.pathWildcardCount = 0, !.parentNode = 0]
  IN  IF st.nodeWildcardCount < st.pathWildcardCount
      THEN LET diffCount == st.pathWildcardCount - st.nodeWildcardCount
               h1 == Append(st.h, [NewMap EXCEPT !.hasCnt = TRUE, !.cnt = diffCount])
               h2 == [h1 EXCEPT ![st.node].wild = nextNode]
           IN  reset(h2, nextNode)
      ELSE IF st.nodeWildcardCount > st.pathWildcardCount
      THEN LET diffCount == st.nodeWildcardCount - st.pathWildcardCount
               h1 == Append(st.h, [NewMap EXCEPT !.hasCnt = TRUE,
                                                 !.cnt = st.h[st.node].cnt - diffCount])
               h2 == [h1 EXCEPT ![st.node].hasCnt = TRUE, ![st.node].cnt = diffCount]
               h3 == [h2 EXCEPT ![st.parentNode].wild = nextNode]
               h4 == [h3 EXCEPT ![nextNode].wild = st.node]
           IN  reset(h4, nextNode)
      ELSE reset(st.h, st.node)

\* ------------------------------------------------------------ hardSeekStep
RECURSIVE hardSeekWalk(_)

\* hardSeekWalk with a fault: the node walked from is not kept as parentNode
hardSeekWalk_noParent(st) ==
  IF st.h[st.node].wild # 0 /\ st.nodeWildcardCount < st.pathWildcardCount
  THEN LET childNode == st.h[st.node].wild
       IN  hardSeekWalk([st EXCEPT
             !.nodeWildcardCount = @ + CountOr1(st.h[childNode]),
             !.node = childNode])
  ELSE st

\* hardSeekWalk with a fault: a run node on the way counts as one wildcard
hardSeekWalk_countOne(st) ==
  IF st.h[st.node].wild # 0 /\ st.nodeWildcardCount < st.pathWildcardCount
  THEN LET childNode == st.h[st.node].wild
       IN  hardSeekWalk([st EXCEPT
             !.nodeWildcardCount = @ + 1,
             !.parentNode = st.node,
             !.node = childNode])
  ELSE st

\* the while loop of hardSeekStep
hardSeekWalk(st) ==
  IF st.h[st.node].wild # 0 /\ st.nodeWildcardCount < st.pathWildcardCount
  THEN LET childNode == st.h[st.node].wild
       IN  hardSeekWalk([st EXCEPT
             !.nodeWildcardCount = @ + CountOr1(st.h[childNode]),
             !.parentNode = st.node,
             !.node = childNode])
  ELSE st

\* hardSeekStep with a fault: a wildcard segment is resolved at once, so that
\* consecutive wildcard segments are not added up
hardSeekStep_noAccumulation(st, segment) ==
  IF ~isWildcardSegment(segment)
  THEN LET r == resolveNode(st)
           childNode == NodeGet(r.h[r.node], segment.key)
           newNode == Len(r.h) + 1
       IN  IF childNode = 0
           THEN [r EXCEPT !.h = [Append(r.h, NewMap) EXCEPT
                                   ![r.node] = MapSet(@, segment.key, newNode)],
                          !.node = newNode]
           ELSE [r EXCEPT !.node = childNode]
  ELSE resolveNode(hardSeekWalk([st EXCEPT !.pathWildcardCount = @ + segment.count]))

hardSeekStep(st, segment) ==
  IF ~isWildcardSegment(segment)
  THEN LET r == resolveNode(st)
           childNode == NodeGet(r.h[r.node], segment.key)
           newNode == Len(r.h) + 1
       IN  IF childNode = 0
           THEN [r EXCEPT !.h = [Append(r.h, NewMap) EXCEPT
                                   ![r.node] = MapSet(@, segment.key, newNode)],
                          !.node = newNode]
           ELSE [r EXCEPT !.node = childNode]
  ELSE hardSeekWalk([st EXCEPT !.pathWildcardCount = @ + segment.count])

RECURSIVE hardSeekLoop(_, _, _)
hardSeekLoop(st, path, i) ==
  IF i > Len(path) THEN st
  ELSE hardSeekLoop(hardSeekStep(st, path[i]), path, i + 1)

\* returns the heap after the seek and the node the path ends at
hardSeekSync(h, path) ==
  resolveNode(hardSeekLoop(
    [h |-> h, node |-> 1, parentNode |-> 0,
     nodeWildcardCount |-> 0, pathWildcardCount |-> 0], path, 1))

\* ------------------------------------------------------------ softSeekStep
\* the while loop of softSeekStep
RECURSIVE softSeekWalk(_)
softSeekWalk(st) ==
  IF st.h[st.node].wild # 0 /\ st.nodeWildcardCount < st.pathWildcardCount
  THEN LET childNode == st.h[st.node].wild
       IN  softSeekWalk([st EXCEPT
             !.nodeWildcardCount = @ + CountOr1(st.h[childNode]),
             !.stack = IF st.useStack
                       THEN Append(@, [wild |-> TRUE, key |-> 0, node |-> st.node])
                       ELSE @,
             !.node = childNode])
  ELSE st

\* softSeekStep with a fault: a missing literal child is created, as the hard
\* seek does, before the step gives up
softSeekStep_creating(st, segment) ==
  IF ~isWildcardSegment(segment)
  THEN IF st.nodeWildcardCount # st.pathWildcardCount
       THEN [st EXCEPT !.stack = <<>>, !.node = 0]
       ELSE LET childNode == NodeGet(st.h[st.node], segment.key)
            IN  IF childNode = 0
                THEN [st EXCEPT !.h = [Append(st.h, NewMap) EXCEPT
                                         ![st.node] = MapSet(@, segment.key, Len(st.h) + 1)],
                                !.stack = <<>>, !.node = 0]
                ELSE [st EXCEPT
                       !.stack = IF st.useStack
                                 THEN Append(@, [wild |-> FALSE, key |-> segment.key,
                                                 node |-> st.node])
                                 ELSE @,
                       !.node = childNode]
  ELSE softSeekWalk([st EXCEPT !.pathWildcardCount = @ + segment.count])

\* node = 0 is the undefined the step returns
softSeekStep(st, segment) ==
  IF ~isWildcardSegment(segment)
  THEN IF st.nodeWildcardCount # st.pathWildcardCount
       THEN [st EXCEPT !.stack = <<>>, !.node = 0]
       ELSE LET childNode == NodeGet(st.h[st.node], segment.key)
            IN  IF childNode = 0
                THEN [st EXCEPT !.stack = <<>>, !.node = 0]
                ELSE [st EXCEPT
                       !.stack = IF st.useStack
                                 THEN Append(@, [wild |-> FALSE, key |-> segment.key,
                                                 node |-> st.node])
                                 ELSE @,
                       !.node = childNode]
  ELSE softSeekWalk([st EXCEPT !.pathWildcardCount = @ + segment.count])

RECURSIVE softSeekLoop(_, _, _)
softSeekLoop(st, path, i) ==
  IF i > Len(path) THEN st
  ELSE LET r == softSeekStep(st, path[i])
       IN  IF r.node = 0 THEN r ELSE softSeekLoop(r, path, i + 1)

\* softSeekSync with a fault: a path that ends inside a run is not rejected
softSeekSync_noCountCheck(h, path, useStack) ==
  LET r == softSeekLoop(
             [h |-> h, node |-> 1, nodeWildcardCount |-> 0, pathWildcardCount |-> 0,
              stack |-> <<>>, useStack |-> useStack], path, 1)
  IN  IF r.node = 0 THEN r
      ELSE IF ~r.h[r.node].hasData
      THEN [r EXCEPT !.stack = <<>>, !.node = 0]
      ELSE r

\* returns the heap after the seek, the node found (0: undefined) and the stack
softSeekSync(h, path, useStack) ==
  LET r == softSeekLoop(
             [h |-> h, node |-> 1, nodeWildcardCount |-> 0, pathWildcardCount |-> 0,
              stack |-> <<>>, useStack |-> useStack], path, 1)
  IN  IF r.node = 0 THEN r
      ELSE IF r.nodeWildcardCount # r.pathWildcardCount \/ ~r.h[r.node].hasData
      THEN [r EXCEPT !.stack = <<>>, !.node = 0]
      ELSE r

\* ----------------------------------------------------------------- cleanUp
hasChildren(n) ==
  n.hasData \/ n.wild # 0 \/ \E k \in DOMAIN n.lit : n.lit[k] # 0

\* parentNode.delete(segment)
MapDelete(n, entry) ==
  IF entry.wild THEN [n EXCEPT !.wild = 0]
  ELSE [n EXCEPT !.lit = [k \in DOMAIN n.lit \ {entry.key} |-> n.lit[k]]]

\* cleanUpPrune with a fault: an if in place of the while, one node is pruned
cleanUpPrune_once(c) ==
  IF ~hasChildren(c.h[c.node]) /\ Len(c.stack) > 0
  THEN LET top == c.stack[Len(c.stack)]
       IN  [h |-> [c.h EXCEPT ![top.node] = MapDelete(@, top)],
            node |-> top.node,
            stack |-> SubSeq(c.stack, 1, Len(c.stack) - 1)]
  ELSE c

\* the while loop of cleanUp
RECURSIVE cleanUpPrune(_)
cleanUpPrune(c) ==
  IF ~hasChildren(c.h[c.node]) /\ Len(c.stack) > 0
  THEN LET top == c.stack[Len(c.stack)]
       IN  cleanUpPrune([h |-> [c.h EXCEPT ![top.node] = MapDelete(@, top)],
                         node |-> top.node,
                         stack |-> SubSeq(c.stack, 1, Len(c.stack) - 1)])
  ELSE c

\* cleanUpMerge with a fault: nothing is merged
cleanUpMerge_none(c) == c

\* cleanUpMerge with a fault: the child takes the place of the merged node
\* without taking its count
cleanUpMerge_noSum(c) ==
  LET n == c.h[c.node]
  IN  IF ~n.hasData /\ n.wild # 0 /\ isWildcardCountNode(n)
      THEN LET childNode == n.wild
               top == c.stack[Len(c.stack)]
           IN  [c EXCEPT !.h = [c.h EXCEPT ![top.node].wild = childNode],
                         !.stack = SubSeq(c.stack, 1, Len(c.stack) - 1)]
      ELSE c

\* the if statement of cleanUp: merge a wildcard count node into its child
cleanUpMerge(c) ==
  LET n == c.h[c.node]
  IN  IF ~n.hasData /\ n.wild # 0 /\ isWildcardCountNode(n)
      THEN LET childNode == n.wild
               top == c.stack[Len(c.stack)]
               h1 == [c.h EXCEPT ![childNode].cnt = @ + n.cnt]
           IN  [c EXCEPT !.h = [h1 EXCEPT ![top.node].wild = childNode],
                         !.stack = SubSeq(c.stack, 1, Len(c.stack) - 1)]
      ELSE c

cleanUp(h, node, stack) ==
  cleanUpMerge(cleanUpPrune([h |-> h, node |-> node, stack |-> stack]))

\* ---------------------------------------------------------- Trie methods
\* each returns the trie after the call (heap h, size) and the value returned
\* Trie_setSync with a fault: the size is incremented on every call
Trie_setSync_alwaysCount(h, sz, path, value) ==
  LET r == hardSeekSync(h, path)
  IN  [h |-> [r.h EXCEPT ![r.node].hasData = TRUE, ![r.node].data = value],
       size |-> sz + 1,
       ret |-> Undef]

Trie_setSync(h, sz, path, value) ==
  LET r == hardSeekSync(h, path)
      exists == r.h[r.node].hasData
  IN  [h |-> [r.h EXCEPT ![r.node].hasData = TRUE, ![r.node].data = value],
       size |-> IF ~exists THEN sz + 1 ELSE sz,
       ret |-> Undef]

Trie_hasSync(h, sz, path) ==
  LET r == softSeekSync(h, path, FALSE)
  IN  [h |-> r.h, size |-> sz, ret |-> r.node # 0]

Trie_getSync(h, sz, path) ==
  LET r == softSeekSync(h, path, FALSE)
  IN  [h |-> r.h, size |-> sz,
       ret |-> IF r.node = 0 THEN Undef ELSE r.h[r.node].data]

\* Trie_deleteSync with a fault: the size is not decremented
Trie_deleteSync_sizeKept(h, sz, path) ==
  LET r == softSeekSync(h, path, TRUE)
  IN  IF r.node = 0
      THEN [h |-> r.h, size |-> sz, ret |-> FALSE]
      ELSE LET h1 == [r.h EXCEPT ![r.node].hasData = FALSE, ![r.node].data = Undef]
               c == cleanUp(h1, r.node, r.stack)
           IN  [h |-> c.h, size |-> sz, ret |-> TRUE]

\* Trie_deleteSync with a fault: the size is decremented before the node is tested
Trie_deleteSync_sizeFirst(h, sz, path) ==
  LET r == softSeekSync(h, path, TRUE)
  IN  IF r.node = 0
      THEN [h |-> r.h, size |-> sz - 1, ret |-> FALSE]
      ELSE LET h1 == [r.h EXCEPT ![r.node].hasData = FALSE, ![r.node].data = Undef]
               c == cleanUp(h1, r.node, r.stack)
           IN  [h |-> c.h, size |-> sz - 1, ret |-> TRUE]

Trie_deleteSync(h, sz, path) ==
  LET r == softSeekSync(h, path, TRUE)
  IN  IF r.node = 0
      THEN [h |-> r.h, size |-> sz, ret |-> FALSE]
      ELSE LET h1 == [r.h EXCEPT ![r.node].hasData = FALSE, ![r.node].data = Undef]
               c == cleanUp(h1, r.node, r.stack)
           IN  [h |-> c.h, size |-> sz - 1, ret |-> TRUE]

\* Trie_clear with a fault: the size is left as it was
Trie_clear_sizeKept(h, sz) ==
  [h |-> [h EXCEPT ![1] = NewMap], size |-> sz, ret |-> Undef]

Trie_clear(h, sz) ==
  [h |-> [h EXCEPT ![1] = NewMap], size |-> 0, ret |-> Undef]

\* ------------------------------------------------- iterators of a match
\* The iterator world of one matchSync call over the input t: the iterator of
\* the input (pos tokens given out, nexts calls of next(), returns calls of
\* return(), srcDone once next() has answered done) and the tees made so far.
\* An iterator is the source (tee = 0) or branch br of tee number tee.
SourceIt == [tee |-> 0, br |-> 0]

NewWorld ==
  [pos |-> 0, nexts |-> 0, returns |-> 0, srcDone |-> FALSE, tees |-> <<>>]

NoValue == -1

\* teeIteratorSync: an empty buffer, and two branch generators, not started
\* (started: next() was called), not ended (the generator has not completed),
\* at the start of the buffer
teeIteratorSync(wd, iterator) ==
  [wd EXCEPT !.tees = Append(@,
     [up |-> iterator, buf |-> <<>>, done |-> FALSE,
      closed |-> <<FALSE, FALSE>>, at |-> <<0, 0>>,
      started |-> <<FALSE, FALSE>>, ended |-> <<FALSE, FALSE>>])]

RECURSIVE iterNext(_, _, _)

\* iterNext with a fault: a branch at the end of the buffer does not look at
\* done and asks upstream again
iterNext_askAgain(wd, t, it) ==
  IF it.tee = 0
  THEN IF wd.pos < Len(t) /\ wd.returns = 0
       THEN [wd |-> [wd EXCEPT !.pos = @ + 1, !.nexts = @ + 1],
             done |-> FALSE, value |-> t[wd.pos + 1]]
       ELSE [wd |-> [wd EXCEPT !.nexts = @ + 1, !.srcDone = TRUE],
             done |-> TRUE, value |-> NoValue]
  ELSE LET k == it.tee
           i == it.br
           tee == wd.tees[k]
       IN  IF tee.ended[i]
           THEN [wd |-> wd, done |-> TRUE, value |-> NoValue]
           ELSE IF tee.at[i] < Len(tee.buf)
           THEN [wd |-> [wd EXCEPT !.tees[k].at[i] = @ + 1,
                                   !.tees[k].started[i] = TRUE],
                 done |-> FALSE, value |-> tee.buf[tee.at[i] + 1]]
           ELSE LET r == iterNext(wd, t, tee.up)
                IN  IF r.done
                    THEN [wd |-> [r.wd EXCEPT !.tees[k].done = TRUE,
                                              !.tees[k].closed[i] = TRUE,
                                              !.tees[k].started[i] = TRUE,
                                              !.tees[k].ended[i] = TRUE],
                          done |-> TRUE, value |-> NoValue]
                    ELSE iterNext([r.wd EXCEPT !.tees[k].buf = Append(@, r.value)],
                                  t, it)

\* iterNext with a fault: a branch gives the token it pulls from upstream to
\* its caller without putting it into the buffer
iterNext_noBuffer(wd, t, it) ==
  IF it.tee = 0
  THEN IF wd.pos < Len(t) /\ wd.returns = 0
       THEN [wd |-> [wd EXCEPT !.pos = @ + 1, !.nexts = @ + 1],
             done |-> FALSE, value |-> t[wd.pos + 1]]
       ELSE [wd |-> [wd EXCEPT !.nexts = @ + 1, !.srcDone = TRUE],
             done |-> TRUE, value |-> NoValue]
  ELSE LET k == it.tee
           i == it.br
           tee == wd.tees[k]
       IN  IF tee.ended[i]
           THEN [wd |-> wd, done |-> TRUE, value |-> NoValue]
           ELSE IF tee.done
           THEN [wd |-> [wd EXCEPT !.tees[k].closed[i] = TRUE,
                                   !.tees[k].started[i] = TRUE,
                                   !.tees[k].ended[i] = TRUE],
                 done |-> TRUE, value |-> NoValue]
           ELSE LET r == iterNext(wd, t, tee.up)
                IN  IF r.done
                    THEN iterNext([r.wd EXCEPT !.tees[k].done = TRUE], t, it)
                    ELSE [wd |-> [r.wd EXCEPT !.tees[k].started[i] = TRUE],
                          done |-> FALSE, value |-> r.value]

\* pathIterator.next(): of the array iterator, or of a branch generator of a
\* tee (the body of branch(), whose else case is the tee's next())
iterNext(wd, t, it) ==
  IF it.tee = 0
  THEN IF wd.pos < Len(t) /\ wd.returns = 0
       THEN [wd |-> [wd EXCEPT !.pos = @ + 1, !.nexts = @ + 1],
             done |-> FALSE, value |-> t[wd.pos + 1]]
       ELSE [wd |-> [wd EXCEPT !.nexts = @ + 1, !.srcDone = TRUE],
             done |-> TRUE, value |-> NoValue]
  ELSE LET k == it.tee
           i == it.br
           tee == wd.tees[k]
       IN  IF tee.ended[i]
           THEN [wd |-> wd, done |-> TRUE, value |-> NoValue]
           ELSE IF tee.at[i] < Len(tee.buf)
           THEN [wd |-> [wd EXCEPT !.tees[k].at[i] = @ + 1,
                                   !.tees[k].started[i] = TRUE],
                 done |-> FALSE, value |-> tee.buf[tee.at[i] + 1]]
           ELSE IF tee.done
           THEN [wd |-> [wd EXCEPT !.tees[k].closed[i] = TRUE,
                                   !.tees[k].started[i] = TRUE,
                                   !.tees[k].ended[i] = TRUE],
                 done |-> TRUE, value |-> NoValue]
           ELSE LET r == iterNext(wd, t, tee.up)
                    wd1 == IF r.done
                           THEN [r.wd EXCEPT !.tees[k].done = TRUE]
                           ELSE [r.wd EXCEPT !.tees[k].buf = Append(@, r.value)]
                IN  iterNext(wd1, t, it)

\* iterReturn with a fault: a branch closes the upstream iterator though the
\* other branch is open
RECURSIVE iterReturn_eager(_, _)
iterReturn_eager(wd, it) ==
  IF it.tee = 0
  THEN [wd EXCEPT !.returns = @ + 1]
  ELSE LET k == it.tee
           i == it.br
           tee == wd.tees[k]
       IN  IF tee.ended[i] THEN wd
           ELSE IF ~tee.started[i]
           THEN [wd EXCEPT !.tees[k].ended[i] = TRUE]
           ELSE LET wd1 == [wd EXCEPT !.tees[k].closed[i] = TRUE,
                                      !.tees[k].ended[i] = TRUE]
                IN  IF ~tee.done
                    THEN iterReturn_eager(wd1, tee.up)
                    ELSE wd1

\* iterator.return(): of the input iterator, or of a branch generator of a tee.
\* A generator that has completed is left as it is; one that was never
\* started completes without running its body, the finally block included;
\* one suspended at its yield runs the finally block of branch().
RECURSIVE iterReturn(_, _)
iterReturn(wd, it) ==
  IF it.tee = 0
  THEN [wd EXCEPT !.returns = @ + 1]
  ELSE LET k == it.tee
           i == it.br
           tee == wd.tees[k]
       IN  IF tee.ended[i] THEN wd
           ELSE IF ~tee.started[i]
           THEN [wd EXCEPT !.tees[k].ended[i] = TRUE]
           ELSE LET wd1 == [wd EXCEPT !.tees[k].closed[i] = TRUE,
                                      !.tees[k].ended[i] = TRUE]
                IN  IF ~tee.done /\ tee.closed[3 - i]
                    THEN iterReturn(wd1, tee.up)
                    ELSE wd1

\* traverseSkip with a fault: the loop runs count times, not count - 1 times
RECURSIVE traverseSkip_offByOne(_, _, _, _)
traverseSkip_offByOne(wd, t, it, n) ==
  IF n < 0 THEN [wd |-> wd, done |-> FALSE]
  ELSE LET r == iterNext(wd, t, it)
       IN  IF r.done THEN [wd |-> r.wd, done |-> TRUE]
           ELSE traverseSkip_offByOne(r.wd, t, it, n - 1)

\* traverseSkip with a fault: no token is pulled, a run counts as one token
traverseSkip_none(wd, t, it, n) == [wd |-> wd, done |-> FALSE]

\* the for loop of traverseSync: n further tokens are pulled and dropped
RECURSIVE traverseSkip(_, _, _, _)
traverseSkip(wd, t, it, n) ==
  IF n <= 0 THEN [wd |-> wd, done |-> FALSE]
  ELSE LET r == iterNext(wd, t, it)
       IN  IF r.done THEN [wd |-> r.wd, done |-> TRUE]
           ELSE traverseSkip(r.wd, t, it, n - 1)

RECURSIVE traverseSync(_, _, _, _, _)

\* traverseChildren with a fault: with both children, the literal one goes first
traverseChildren_literalFirst(wd, t, h, n, value, it) ==
  LET childNode1 == n.wild
      childNode2 == NodeGet(n, value)
  IN  IF childNode1 # 0 /\ childNode2 = 0
      THEN traverseSync(wd, t, h, childNode1, it)
      ELSE IF childNode1 = 0 /\ childNode2 # 0
      THEN traverseSync(wd, t, h, childNode2, it)
      ELSE IF childNode1 # 0 /\ childNode2 # 0
      THEN LET tw == teeIteratorSync(wd, it)
               k == Len(tw.tees)
               x2 == traverseSync(tw, t, h, childNode2, [tee |-> k, br |-> 2])
               x1 == traverseSync(x2.wd, t, h, childNode1, [tee |-> k, br |-> 1])
           IN  [wd |-> x1.wd, out |-> x2.out \o x1.out]
      ELSE [wd |-> wd, out |-> <<>>]

\* traverseSync after the token value is pulled at node n: the matched
\* children are traversed, the wildcard child first
traverseChildren(wd, t, h, n, value, it) ==
  LET childNode1 == n.wild
      childNode2 == NodeGet(n, value)
  IN  IF childNode1 # 0 /\ childNode2 = 0
      THEN traverseSync(wd, t, h, childNode1, it)
      ELSE IF childNode1 = 0 /\ childNode2 # 0
      THEN traverseSync(wd, t, h, childNode2, it)
      ELSE IF childNode1 # 0 /\ childNode2 # 0
      THEN LET tw == teeIteratorSync(wd, it)
               k == Len(tw.tees)
               x1 == traverseSync(tw, t, h, childNode1, [tee |-> k, br |-> 1])
               x2 == traverseSync(x1.wd, t, h, childNode2, [tee |-> k, br |-> 2])
           IN  [wd |-> x2.wd, out |-> x1.out \o x2.out]
      ELSE [wd |-> wd, out |-> <<>>]

\* traverseSync with a fault: the next token is pulled before the value of the
\* node is yielded, and an input that has ended yields nothing
traverseSync_pullFirst(wd, t, h, node, it) ==
  LET n == h[node]
      s == IF isWildcardCountNode(n)
           THEN traverseSkip(wd, t, it, n.cnt - 1)
           ELSE [wd |-> wd, done |-> FALSE]
  IN  IF s.done THEN [wd |-> s.wd, out |-> <<>>]
      ELSE
        LET own == IF n.hasData THEN <<n.data>> ELSE <<>>
            r == iterNext(s.wd, t, it)
        IN  IF r.done THEN [wd |-> r.wd, out |-> <<>>]
            ELSE LET x == traverseChildren(r.wd, t, h, n, r.value, it)
                 IN  [wd |-> x.wd, out |-> own \o x.out]

\* traverseSync run to its end: the values yielded, in order, and the world
traverseSync(wd, t, h, node, it) ==
  LET n == h[node]
      s == IF isWildcardCountNode(n)
           THEN traverseSkip(wd, t, it, n.cnt - 1)
           ELSE [wd |-> wd, done |-> FALSE]
  IN  IF s.done THEN [wd |-> s.wd, out |-> <<>>]
      ELSE
        LET own == IF n.hasData THEN <<n.data>> ELSE <<>>
            r == iterNext(s.wd, t, it)
        IN  IF r.done THEN [wd |-> r.wd, out |-> own]
            ELSE LET x == traverseChildren(r.wd, t, h, n, r.value, it)
                 IN  [wd |-> x.wd, out |-> own \o x.out]

\* ---------------------------------------------- the generators of a match
\* The generator objects of one matchSync call are a stack of frames, the
\* innermost last: the node and the iterator of a traverseSync call and the
\* place it is suspended at: "start" (not started), "yielded" (at its yield,
\* or past it with nothing to yield), "first" (in the yield* of the wildcard
\* child, the literal child other and branch 2 of tee k to follow), "last" (in
\* its last yield*).
NewFrame(node, it) == [node |-> node, it |-> it, pc |-> "start", k |-> 0, other |-> 0]

Pop(stack) == SubSeq(stack, 1, Len(stack) - 1)

RECURSIVE traverseResume(_, _, _, _)

\* traverseCall with a fault: both children are given the iterator itself, no
\* tee is made
traverseCall_noTee(wd, t, h, stack, value) ==
  LET f == stack[Len(stack)]
      n == h[f.node]
      childNode1 == n.wild
      childNode2 == NodeGet(n, value)
      into(fr, childNode, it) == Append(Append(Pop(stack), fr), NewFrame(childNode, it))
  IN  IF childNode1 # 0 /\ childNode2 = 0
      THEN traverseResume(wd, t, h, into([f EXCEPT !.pc = "last"], childNode1, f.it))
      ELSE IF childNode1 = 0 /\ childNode2 # 0
      THEN traverseResume(wd, t, h, into([f EXCEPT !.pc = "last"], childNode2, f.it))
      ELSE IF childNode1 # 0 /\ childNode2 # 0
      THEN traverseResume(wd, t, h,
             into([f EXCEPT !.pc = "first", !.k = 0, !.other = childNode2],
                  childNode1, f.it))
      ELSE traverseResume(wd, t, h, Pop(stack))

\* traverseSync past its pull of the token value: the yield* of the matched
\* children is entered
traverseCall(wd, t, h, stack, value) ==
  LET f == stack[Len(stack)]
      n == h[f.node]
      childNode1 == n.wild
      childNode2 == NodeGet(n, value)
      into(fr, childNode, it) == Append(Append(Pop(stack), fr), NewFrame(childNode, it))
  IN  IF childNode1 # 0 /\ childNode2 = 0
      THEN traverseResume(wd, t, h, into([f EXCEPT !.pc = "last"], childNode1, f.it))
      ELSE IF childNode1 = 0 /\ childNode2 # 0
      THEN traverseResume(wd, t, h, into([f EXCEPT !.pc = "last"], childNode2, f.it))
      ELSE IF childNode1 # 0 /\ childNode2 # 0
      THEN LET tw == teeIteratorSync(wd, f.it)
               k == Len(tw.tees)
           IN  traverseResume(tw, t, h,
                 into([f EXCEPT !.pc = "first", !.k = k, !.other = childNode2],
                      childNode1, [tee |-> k, br |-> 1]))
      ELSE traverseResume(wd, t, h, Pop(stack))

\* next() of the generator of matchSync: the frames run up to the next yield
\* (done FALSE, and its value) or to the end of the outermost one (done TRUE)
traverseResume(wd, t, h, stack) ==
  IF stack = <<>>
  THEN [wd |-> wd, stack |-> stack, done |-> TRUE, value |-> Undef]
  ELSE
    LET f == stack[Len(stack)]
        n == h[f.node]
    IN  IF f.pc = "start"
        THEN LET s == IF isWildcardCountNode(n)
                      THEN traverseSkip(wd, t, f.it, n.cnt - 1)
                      ELSE [wd |-> wd, done |-> FALSE]
                 at == Append(Pop(stack), [f EXCEPT !.pc = "yielded"])
             IN  IF s.done THEN traverseResume(s.wd, t, h, Pop(stack))
                 ELSE IF n.hasData
                 THEN [wd |-> s.wd, stack |-> at, done |-> FALSE, value |-> n.data]
                 ELSE traverseResume(s.wd, t, h, at)
        ELSE IF f.pc = "yielded"
        THEN LET r == iterNext(wd, t, f.it)
             IN  IF r.done THEN traverseResume(r.wd, t, h, Pop(stack))
                 ELSE traverseCall(r.wd, t, h, stack, r.value)
        ELSE IF f.pc = "first"
        THEN traverseResume(wd, t, h,
               Append(Append(Pop(stack), [f EXCEPT !.pc = "last"]),
                      NewFrame(f.other, [tee |-> f.k, br |-> 2])))
        ELSE traverseResume(wd, t, h, Pop(stack))

\* return() of the generator of matchSync: the generators suspended in their
\* yield* chain complete; traverseSync has no finally block and closes no
\* iterator
traverseReturn(wd, t, h, stack) ==
  [wd |-> wd, stack |-> <<>>, done |-> TRUE, value |-> Undef]

\* matchSync consumed to its end: ret is the sequence of the values yielded
Trie_matchSync(h, sz, t) ==
  LET r == traverseSync(NewWorld, t, h, 1, SourceIt)
  IN  [h |-> h, size |-> sz, ret |-> r.out, wd |-> r.wd]

\* ------------------------------------------------------ callbacks, entries
\* the callbacks given to setCallbackSync: (prev, exists) -> value
Callbacks == {"const", "flip"}

CallbackApply(cb, prev, exists) ==
  IF cb = "const" THEN "a"
  ELSE IF exists /\ prev = "a" THEN "b" ELSE "a"

\* Trie_setCallbackSync with a fault: the callback is not given the previous
\* value
Trie_setCallbackSync_noPrev(h, sz, path, cb) ==
  LET r == hardSeekSync(h, path)
      exists == r.h[r.node].hasData
  IN  [h |-> [r.h EXCEPT ![r.node].hasData = TRUE,
                         ![r.node].data = CallbackApply(cb, Undef, exists)],
       size |-> IF ~exists THEN sz + 1 ELSE sz,
       ret |-> Undef,
       calls |-> <<[prev |-> Undef, exists |-> exists]>>]

\* calls: the arguments of the calls of the callback, in order
Trie_setCallbackSync(h, sz, path, cb) ==
  LET r == hardSeekSync(h, path)
      exists == r.h[r.node].hasData
  IN  [h |-> [r.h EXCEPT ![r.node].hasData = TRUE,
                         ![r.node].data = CallbackApply(cb, r.h[r.node].data, exists)],
       size |-> IF ~exists THEN sz + 1 ELSE sz,
       ret |-> Undef,
       calls |-> <<[prev |-> r.h[r.node].data, exists |-> exists]>>]

\* the entry lists given to addSync: up to two entries of one segment each
AddLists ==
  SeqsUpTo({[path |-> p, value |-> v] : p \in {q \in Paths : Len(q) = 1}, v \in Values}, 2)

RECURSIVE Trie_addSyncFrom(_, _, _, _)
Trie_addSyncFrom(h, sz, entries, i) ==
  IF i > Len(entries) THEN [h |-> h, size |-> sz, ret |-> Undef]
  ELSE LET r == Trie_setSync(h, sz, entries[i].path, entries[i].value)
       IN  Trie_addSyncFrom(r.h, r.size, entries, i + 1)

Trie_addSync(h, sz, entries) == Trie_addSyncFrom(h, sz, entries, 1)

\* ------------------------------------------------------------------ state
VARIABLES
  root,   \* the objects reachable from #root, object 1 being #root
  size,   \* #size
  stored, \* the logical paths given to the insertions so far (a record of
          \* the calls made, kept by the insertion-only specifications)
  input,    \* the tokens of the iterable given to matchSync or split by a tee
  world,    \* the iterator of the input and the tees made of it
  frames,   \* the suspended traverseSync generators of the matchSync call
  yielded,  \* the values the matchSync generator has yielded so far
  consumer, \* what the caller of matchSync has done with the generator
  seen      \* of each of the two cursors of a tee: the tokens it has given
            \* out, whether it has answered done, and whether its return()
            \* was called

trieVars == <<root, size>>

insVars == <<stored>>

\* the state of a match or of a split of an input
runVars == <<input, world, frames, yielded, consumer, seen>>

vars == <<trieVars, insVars, runVars>>

NoRun ==
  /\ input = <<>>
  /\ world = NewWorld
  /\ frames = <<>>
  /\ yielded = <<>>
  /\ consumer = "none"
  /\ seen = [i \in 1..2 |-> [tokens |-> <<>>, done |-> FALSE, returned |-> FALSE]]

\* new Trie(): addSync of no entries
Init ==
  /\ root = Reachable(Trie_addSync(<<NewMap>>, 0, <<>>).h)
  /\ size = Trie_addSync(<<NewMap>>, 0, <<>>).size
  /\ stored = {}
  /\ NoRun

\* the model follows a call that leaves the graph g and the size sz only
\* within its bounds
InBounds(g, sz) == Len(g) <= MaxNodes /\ sz <= MaxSize

SetSync ==
  \E path \in Paths, value \in Values :
    LET r == Trie_setSync(root, size, path, value)
        g == Reachable(r.h)
    IN  InBounds(g, r.size) /\ root' = g /\ size' = r.size /\ UNCHANGED <<insVars, runVars>>

SetCallbackSync ==
  \E path \in Paths, cb \in Callbacks :
    LET r == Trie_setCallbackSync(root, size, path, cb)
        g == Reachable(r.h)
    IN  InBounds(g, r.size) /\ root' = g /\ size' = r.size /\ UNCHANGED <<insVars, runVars>>

AddSync ==
  \E entries \in AddLists :
    LET r == Trie_addSync(root, size, entries)
        g == Reachable(r.h)
    IN  InBounds(g, r.size) /\ root' = g /\ size' = r.size /\ UNCHANGED <<insVars, runVars>>

HasSync ==
  \E path \in Paths :
    LET r == Trie_hasSync(root, size, path)
        g == Reachable(r.h)
    IN  InBounds(g, r.size) /\ root' = g /\ size' = r.size /\ UNCHANGED <<insVars, runVars>>

GetSync ==
  \E path \in Paths :
    LET r == Trie_getSync(root, size, path)
        g == Reachable(r.h)
    IN  InBounds(g, r.size) /\ root' = g /\ size' = r.size /\ UNCHANGED <<insVars, runVars>>

DeleteSync ==
  \E path \in Paths :
    LET r == Trie_deleteSync(root, size, path)
        g == Reachable(r.h)
    IN  InBounds(g, r.size) /\ root' = g /\ size' = r.size /\ UNCHANGED <<insVars, runVars>>

Clear ==
  LET r == Trie_clear(root, size)
      g == Reachable(r.h)
  IN  InBounds(g, r.size) /\ root' = g /\ size' = r.size /\ UNCHANGED <<insVars, runVars>>

MatchSync ==
  \E t \in Inputs :
    LET r == Trie_matchSync(root, size, t)
        g == Reachable(r.h)
    IN  InBounds(g, r.size) /\ root' = g /\ size' = r.size /\ UNCHANGED <<insVars, runVars>>

Next ==
  \/ SetSync
  \/ SetCallbackSync
  \/ AddSync
  \/ HasSync
  \/ GetSync
  \/ DeleteSync
  \/ Clear
  \/ MatchSync

Spec == Init /\ [][Next]_vars

\* ------------------------------------------- a trie built by insertions only
\* the values given to the insertions: undefined is a value as any other
InsValues == Values \cup {Undef}

RECURSIVE Expand(_)

\* the logical paths of the entries of a list given to addSync
EntryPaths(entries) == {Expand(entries[i].path) : i \in DOMAIN entries}

InsAddLists ==
  SeqsUpTo({[path |-> p, value |-> v] : p \in {q \in Paths : Len(q) = 1}, v \in InsValues}, 2)

InsSetSync ==
  \E path \in Paths, value \in InsValues :
    LET r == Trie_setSync(root, size, path, value)
        g == Reachable(r.h)
    IN  /\ InBounds(g, r.size) /\ root' = g /\ size' = r.size
        /\ stored' = stored \cup {Expand(path)}
        /\ UNCHANGED runVars

InsSetCallbackSync ==
  \E path \in Paths, cb \in Callbacks :
    LET r == Trie_setCallbackSync(root, size, path, cb)
        g == Reachable(r.h)
    IN  /\ InBounds(g, r.size) /\ root' = g /\ size' = r.size
        /\ stored' = stored \cup {Expand(path)}
        /\ UNCHANGED runVars

InsAddSync ==
  \E entries \in InsAddLists :
    LET r == Trie_addSync(root, size, entries)
        g == Reachable(r.h)
    IN  /\ InBounds(g, r.size) /\ root' = g /\ size' = r.size
        /\ stored' = stored \cup EntryPaths(entries)
        /\ UNCHANGED runVars

InsHasSync ==
  \E path \in Paths :
    LET r == Trie_hasSync(root, size, path)
        g == Reachable(r.h)
    IN  /\ InBounds(g, r.size) /\ root' = g /\ size' = r.size
        /\ UNCHANGED <<stored, runVars>>

InsNext ==
  \/ InsSetSync
  \/ InsSetCallbackSync
  \/ InsAddSync
  \/ InsHasSync

InsertSpec == Init /\ [][InsNext]_vars

\* ------------------------------------- matchSync driven by its consumer
\* the words of the usage example of the README, as tokens
Word == [path |-> 11, with |-> 12, no |-> 13, wildcard |-> 14, or |-> 15, wildcards |-> 16]

ReadmeEntries ==
  <<[path |-> <<Lit(Word.path), Lit(Word.with), Lit(Word.no), Lit(Word.wildcard)>>,
     value |-> "value1"],
    [path |-> <<Lit(Word.path), Lit(Word.with), w(2), w(2), Lit(Word.wildcards)>>,
     value |-> "value2"]>>

ReadmeInput ==
  <<Word.path, Word.with, Word.no, Word.wildcard, Word.or, Word.with, Word.wildcards>>

\* the entries of the matching examples: two literal paths and two paths that
\* share a run of wildcards
ExampleEntries ==
  <<[path |-> <<Lit(1), Lit(2)>>, value |-> "v1"],
    [path |-> <<Lit(2), Lit(2)>>, value |-> "v2"],
    [path |-> <<Lit(1), w(5), Lit(2)>>, value |-> "v3"],
    [path |-> <<Lit(1), w(10)>>, value |-> "v4"]>>

\* the token 1 followed by n tokens e
OneThen(n, e) == <<1>> \o [i \in 1..n |-> e]

ExampleInputs ==
  {<<1, 2>>,
   Append(OneThen(4, 1), 2), Append(OneThen(5, 1), 2),
   OneThen(9, 0), OneThen(10, 0)}

MatchEntries ==
  {ReadmeEntries[i] : i \in DOMAIN ReadmeEntries}
    \cup {ExampleEntries[i] : i \in DOMAIN ExampleEntries}

MatchInputs == {ReadmeInput} \cup ExampleInputs

\* setSync of an entry, before the match
ExSetSync ==
  /\ consumer = "none"
  /\ \E e \in MatchEntries :
       LET r == Trie_setSync(root, size, e.path, e.value)
       IN  /\ root' = Reachable(r.h)
           /\ size' = r.size
           /\ stored' = stored \cup {Expand(e.path)}
  /\ UNCHANGED runVars

\* matchSync(t): the generator is made, nothing of its body has run
MatchStart ==
  /\ consumer = "none"
  /\ \E t \in MatchInputs : input' = t
  /\ world' = NewWorld
  /\ frames' = <<NewFrame(1, SourceIt)>>
  /\ yielded' = <<>>
  /\ consumer' = "iterating"
  /\ UNCHANGED <<trieVars, insVars, seen>>

\* next() of the generator, by the consumer
MatchNext ==
  /\ consumer = "iterating"
  /\ LET r == traverseResume(world, input, root, frames)
     IN  /\ world' = r.wd
         /\ frames' = r.stack
         /\ yielded' = IF r.done THEN yielded ELSE Append(yielded, r.value)
         /\ consumer' = IF r.done THEN "finished" ELSE "iterating"
  /\ UNCHANGED <<trieVars, insVars, input, seen>>

\* return() of the generator, by a consumer that stops early (a break out of
\* the for loop)
MatchReturn ==
  /\ consumer = "iterating"
  /\ LET r == traverseReturn(world, input, root, frames)
     IN  /\ world' = r.wd
         /\ frames' = r.stack
  /\ consumer' = "abandoned"
  /\ UNCHANGED <<trieVars, insVars, input, yielded, seen>>

MatchSteps ==
  \/ ExSetSync
  \/ MatchStart
  \/ MatchNext
  \/ MatchReturn

MatchSpec == Init /\ [][MatchSteps]_vars

\* ------------------------------------- a tee driven by its two consumers
\* cursor i of the tee of the input
Cursor(i) == [tee |-> 1, br |-> i]

\* teeIteratorSync(t[Symbol.iterator]())
TeeStart ==
  /\ world.tees = <<>>
  /\ \E t \in Inputs : input' = t
  /\ world' = teeIteratorSync(NewWorld, SourceIt)
  /\ UNCHANGED <<trieVars, insVars, frames, yielded, consumer, seen>>

\* next() of cursor i
CursorNext ==
  /\ world.tees # <<>> /\ "reading" \notin DOMAIN world.tees[1]
  /\ \E i \in 1..2 :
       LET r == iterNext(world, input, Cursor(i))
       IN  /\ world' = r.wd
           /\ seen' = IF r.done
                      THEN [seen EXCEPT ![i].done = TRUE]
                      ELSE [seen EXCEPT ![i].tokens = Append(@, r.value)]
  /\ UNCHANGED <<trieVars, insVars, input, frames, yielded, consumer>>

\* return() of cursor i
CursorReturn ==
  /\ world.tees # <<>> /\ "reading" \notin DOMAIN world.tees[1]
  /\ \E i \in 1..2 :
       /\ world' = iterReturn(world, Cursor(i))
       /\ seen' = [seen EXCEPT ![i].returned = TRUE]
  /\ UNCHANGED <<trieVars, insVars, input, frames, yielded, consumer>>

\* ---- teeIterator, the asynchronous tee: a read of the source is in flight
\* (reading) from the call of next() to the settling of its promise, and a
\* branch that awaits currentRead is suspended meanwhile (waiting "pending")
\* and resumes some time after the promise has settled (waiting "ready")
teeIterator(wd, iterator) ==
  [wd EXCEPT !.tees = Append(@,
     [up |-> iterator, buf |-> <<>>, done |-> FALSE,
      closed |-> <<FALSE, FALSE>>, at |-> <<0, 0>>,
      started |-> <<FALSE, FALSE>>, ended |-> <<FALSE, FALSE>>,
      reading |-> FALSE, waiting |-> <<"no", "no">>])]

IsAsyncTee(wd) == wd.tees # <<>> /\ "reading" \in DOMAIN wd.tees[1]

\* the loop of branch(i) of teeIterator run up to its next yield ("value"), to
\* its return ("done") or to its await of currentRead ("await")
branchRun(wd, t, i) ==
  LET tee == wd.tees[1]
      wd0 == [wd EXCEPT !.tees[1].started[i] = TRUE, !.tees[1].waiting[i] = "no"]
  IN  IF tee.at[i] < Len(tee.buf)
      THEN [wd |-> [wd0 EXCEPT !.tees[1].at[i] = @ + 1],
            kind |-> "value", value |-> tee.buf[tee.at[i] + 1]]
      ELSE IF tee.done
      THEN [wd |-> [wd0 EXCEPT !.tees[1].closed[i] = TRUE, !.tees[1].ended[i] = TRUE],
            kind |-> "done", value |-> NoValue]
      ELSE IF ~tee.reading
      THEN [wd |-> [wd0 EXCEPT !.tees[1].reading = TRUE, !.nexts = @ + 1,
                               !.tees[1].waiting[i] = "pending"],
            kind |-> "await", value |-> NoValue]
      ELSE [wd |-> [wd0 EXCEPT !.tees[1].waiting[i] = "pending"],
            kind |-> "await", value |-> NoValue]

\* readSettle with a fault: the branches that await currentRead are not
\* resumed
readSettle_noWake(wd, t) ==
  LET wd0 == [wd EXCEPT !.tees[1].reading = FALSE]
  IN  IF wd.pos < Len(t) /\ wd.returns = 0
      THEN [wd0 EXCEPT !.pos = @ + 1, !.tees[1].buf = Append(@, t[wd.pos + 1])]
      ELSE [wd0 EXCEPT !.srcDone = TRUE, !.tees[1].done = TRUE]

\* the rest of next() of teeIterator, once the promise of iterator.next() has
\* settled; the branches that await currentRead may resume
readSettle(wd, t) ==
  LET wake(x) == IF x = "pending" THEN "ready" ELSE x
      wd0 == [wd EXCEPT !.tees[1].reading = FALSE,
                        !.tees[1].waiting = <<wake(@[1]), wake(@[2])>>]
  IN  IF wd.pos < Len(t) /\ wd.returns = 0
      THEN [wd0 EXCEPT !.pos = @ + 1, !.tees[1].buf = Append(@, t[wd.pos + 1])]
      ELSE [wd0 EXCEPT !.srcDone = TRUE, !.tees[1].done = TRUE]

\* what a step of branch i has given its consumer
Given(sn, i, r) ==
  IF r.kind = "value" THEN [sn EXCEPT ![i].tokens = Append(@, r.value)]
  ELSE IF r.kind = "done" THEN [sn EXCEPT ![i].done = TRUE]
  ELSE sn

\* teeIterator(t[Symbol.iterator]())
AsyncTeeStart ==
  /\ world.tees = <<>>
  /\ \E t \in Inputs : input' = t
  /\ world' = teeIterator(NewWorld, SourceIt)
  /\ UNCHANGED <<trieVars, insVars, frames, yielded, consumer, seen>>

\* next() of cursor i, by a consumer that has no call of it outstanding
AsyncCursorNext ==
  /\ IsAsyncTee(world)
  /\ \E i \in 1..2 :
       /\ world.tees[1].waiting[i] = "no"
       /\ IF world.tees[1].ended[i]
          THEN world' = world /\ seen' = [seen EXCEPT ![i].done = TRUE]
          ELSE LET r == branchRun(world, input, i)
               IN  world' = r.wd /\ seen' = Given(seen, i, r)
  /\ UNCHANGED <<trieVars, insVars, input, frames, yielded, consumer>>

\* the promise of the read in flight settles
ReadSettle ==
  /\ IsAsyncTee(world)
  /\ world.tees[1].reading
  /\ world' = readSettle(world, input)
  /\ UNCHANGED <<trieVars, insVars, input, frames, yielded, consumer, seen>>

\* branch i resumes from its await of currentRead
AsyncCursorWake ==
  /\ IsAsyncTee(world)
  /\ \E i \in 1..2 :
       /\ world.tees[1].waiting[i] = "ready"
       /\ LET r == branchRun(world, input, i)
          IN  world' = r.wd /\ seen' = Given(seen, i, r)
  /\ UNCHANGED <<trieVars, insVars, input, frames, yielded, consumer>>

\* return() of cursor i, by a consumer that has no call of it outstanding
AsyncCursorReturn ==
  /\ IsAsyncTee(world)
  /\ \E i \in 1..2 :
       /\ world.tees[1].waiting[i] = "no"
       /\ world' = iterReturn(world, Cursor(i))
       /\ seen' = [seen EXCEPT ![i].returned = TRUE]
  /\ UNCHANGED <<trieVars, insVars, input, frames, yielded, consumer>>

TeeSteps ==
  \/ TeeStart
  \/ CursorNext
  \/ CursorReturn
  \/ AsyncTeeStart
  \/ AsyncCursorNext
  \/ ReadSettle
  \/ AsyncCursorWake
  \/ AsyncCursorReturn

TeeSpec == Init /\ [][TeeSteps]_vars

\* =================================================================== claims
\* ---- a match, or a tee, driven to its end: the steps of MatchSpec and, while
\* no match was begun and the trie is empty, the steps of TeeSpec.  The consumer
\* of a match keeps calling next(): weak fairness of MatchNext, written out
\* with the enabling condition of MatchNext, consumer = "iterating".  The
\* promise of a read of the source settles, and a branch that awaits a settled
\* promise is resumed by the job queue (weak fairness of ReadSettle and of
\* AsyncCursorWake).
TeeAlone == consumer = "none" /\ stored = {}

LiveExSetSync == world.tees = <<>> /\ ExSetSync

LiveReadSettle == TeeAlone /\ ReadSettle

LiveCursorWake == TeeAlone /\ AsyncCursorWake

LiveSteps ==
  \/ LiveExSetSync
  \/ MatchStart
  \/ MatchNext
  \/ MatchReturn
  \/ TeeAlone /\ TeeStart
  \/ TeeAlone /\ CursorNext
  \/ TeeAlone /\ CursorReturn
  \/ TeeAlone /\ AsyncTeeStart
  \/ TeeAlone /\ AsyncCursorNext
  \/ LiveReadSettle
  \/ LiveCursorWake
  \/ TeeAlone /\ AsyncCursorReturn

ConsumerKeepsIterating ==
  []<>(consumer # "iterating") \/ []<><<MatchNext>>_vars

LiveSpec ==
  /\ Init /\ [][LiveSteps]_vars
  /\ ConsumerKeepsIterating
  /\ WF_vars(LiveReadSettle) /\ WF_vars(LiveCursorWake)

\* what the claims speak of: the calls of the interface on a graph h

Has(h, path) == Trie_hasSync(h, 0, path).ret

Get(h, path) == Trie_getSync(h, 0, path).ret

Graph(r) == Reachable(r.h)

\* the logical path: every w(k) cut into k wildcards of count 1
Expand(path) ==
  IF path = <<>> THEN <<>>
  ELSE (IF isWildcardSegment(Head(path))
        THEN [i \in 1..Head(path).count |-> w(1)]
        ELSE <<Head(path)>>) \o Expand(Tail(path))

SameLogical(p, q) == Expand(p) = Expand(q)

\* the logical paths that hold a value in h, and the value of each
Stored(h) == {Expand(p) : p \in {q \in Paths : Has(h, q)}}

ValueOf(h, e) == Get(h, CHOOSE p \in Paths : Expand(p) = e /\ Has(h, p))

\* the logical path e matches a prefix of the input t
Matches(e, t) ==
  /\ Len(e) <= Len(t)
  /\ \A i \in 1..Len(e) : e[i].wild \/ e[i].key = t[i]

Matching(h, t) == {e \in Stored(h) : Matches(e, t)}

Occurrences(sq, v) == Cardinality({i \in 1..Len(sq) : sq[i] = v})

\* the nodes of the graph that hold a terminal value
Terminals(h) == {i \in DOMAIN h : h[i].hasData}

\* ---------------------------------------------------------------------- C1
\* C1: insert/get round-trip: from every reachable trie, for every path P and
\* value v, after setSync(P, v) getSync(P) returns v and hasSync(P) is true.
C1_InsertGetRoundTrip ==
  \A path \in Paths, value \in Values :
    LET s == Trie_setSync(root, size, path, value)
    IN  Get(s.h, path) = value /\ Has(s.h, path)

\* a trie in which a path set with wildcards ends at a split boundary of a run
C1_Witness ==
  /\ Get(root, <<Lit(1), w(1)>>) = "b"
  /\ Get(root, <<Lit(1), w(2)>>) = "a"

\* ---------------------------------------------------------------------- C2
\* C2: wildcard-fragmentation invariance: two paths that differ only in how
\* their runs of wildcards are cut give, set with the same value from the same
\* trie, the same tree and size, and each addresses the entry of the other for
\* get, has and delete.
C2_FragmentationInvariance ==
  \A p1 \in Paths, p2 \in Paths :
    SameLogical(p1, p2) =>
      \A value \in Values :
        LET s1 == Trie_setSync(root, size, p1, value)
            s2 == Trie_setSync(root, size, p2, value)
            d1 == Trie_deleteSync(s1.h, s1.size, p1)
            d2 == Trie_deleteSync(s1.h, s1.size, p2)
        IN  /\ Graph(s1) = Graph(s2)
            /\ s1.size = s2.size
            /\ Get(s1.h, p2) = value
            /\ Has(s1.h, p2)
            /\ d2.ret
            /\ Graph(d2) = Graph(d1)
            /\ d2.size = d1.size

\* a trie that holds a run of three wildcards with a boundary inside it, which
\* paths cut as w(3), w(1) w(2), w(2) w(1) and w(1) w(1) w(1) all address
C2_Witness ==
  /\ Has(root, <<w(1), w(1), w(1)>>)
  /\ Has(root, <<w(2), w(1)>>)
  /\ Has(root, <<w(3)>>)
  /\ Has(root, <<w(1)>>)

\* ---------------------------------------------------------------------- C3
\* C3: matching is sound and complete: matchSync(t) yields one value for each
\* stored logical path that is no longer than t and whose literals are the
\* tokens of t at their places, and nothing else.
C3_MatchSoundComplete ==
  \A t \in Inputs :
    LET out == Trie_matchSync(root, size, t).ret
        m == Matching(root, t)
    IN  /\ Len(out) = Cardinality(m)
        /\ \A v \in Values \cup {Undef} :
             Occurrences(out, v) = Cardinality({e \in m : ValueOf(root, e) = v})

\* a match in which a tee is made, the wildcard branch pulls the input to its
\* end, and the literal branch still yields a pattern as long as the input
C3_Witness ==
  /\ Has(root, <<w(2)>>)
  /\ Has(root, <<Lit(1), Lit(1)>>)
  /\ LET r == Trie_matchSync(root, size, <<1, 1>>)
     IN  Len(r.ret) = 2 /\ Len(r.wd.tees) = 1 /\ r.wd.tees[1].done

\* ---------------------------------------------------------------------- C4
\* C4: deletion leaves every other entry intact: after deleteSync(P) returns
\* true, every stored path Q that is not the logical path P is still stored,
\* with the value it had.
C4_DeleteKeepsOthers ==
  \A p \in Paths :
    LET d == Trie_deleteSync(root, size, p)
    IN  d.ret =>
          \A q \in Paths :
            (Has(root, q) /\ ~SameLogical(p, q)) =>
              (Has(d.h, q) /\ Get(d.h, q) = Get(root, q))

\* ---------------------------------------------------------------------- C5
\* C5: size invariant: in every reachable state size is the number of nodes
\* reachable from the root that hold a terminal value, which is the number of
\* logical paths hasSync finds.
C5_SizeIsTerminalCount ==
  /\ size = Cardinality(Terminals(root))
  /\ size = Cardinality(Stored(root))

\* ---------------------------------------------------------------------- C6
\* C6 as claimed: after set(P, v) and delete(P), from any trie, get(P) is
\* undefined, has(P) is false and size is what it was before the set.
C6_SetDeleteRestoresSize ==
  \A path \in Paths, value \in Values :
    LET s == Trie_setSync(root, size, path, value)
        d == Trie_deleteSync(s.h, s.size, path)
    IN  Get(d.h, path) = Undef /\ ~Has(d.h, path) /\ d.size = size

\* C6 as amended: after set(P, v) and delete(P), from any trie, the delete
\* returns true, get(P) is undefined, has(P) is false, and size is what it was
\* before the set when P held no value then, and one less when it did.
C6_SetDeleteRoundTrip ==
  \A path \in Paths, value \in Values :
    LET s == Trie_setSync(root, size, path, value)
        d == Trie_deleteSync(s.h, s.size, path)
    IN  /\ d.ret
        /\ Get(d.h, path) = Undef
        /\ ~Has(d.h, path)
        /\ d.size = IF Has(root, path) THEN size - 1 ELSE size

\* a trie that holds a value for a path with wildcards: set and delete of that
\* path end one entry short; set and delete of another path end as before
C6_Witness ==
  /\ size = 2
  /\ Has(root, <<Lit(1), w(2)>>)
  /\ LET s == Trie_setSync(root, size, <<Lit(1), w(1), w(1)>>, "a")
     IN  Trie_deleteSync(s.h, s.size, <<Lit(1), w(2)>>).size = 1

\* ---------------------------------------------------------------------- C7
\* C7: deleteSync(P) returns true exactly when hasSync(P) is true before the
\* call, and when it returns false the tree and the size are unchanged.
C7_DeleteReturn ==
  \A path \in Paths :
    LET d == Trie_deleteSync(root, size, path)
    IN  /\ d.ret = Has(root, path)
        /\ ~d.ret => (Graph(d) = root /\ d.size = size)

\* a trie with one run of length 2 and a literal below it, on which delete
\* fails mid-run, past the chain, on a missing literal and on a boundary that
\* holds no terminal
C7_Witness ==
  /\ Has(root, <<w(2), Lit(1)>>)
  /\ ~Trie_deleteSync(root, size, <<w(1)>>).ret
  /\ ~Trie_deleteSync(root, size, <<w(3)>>).ret
  /\ ~Trie_deleteSync(root, size, <<Lit(1)>>).ret
  /\ ~Trie_deleteSync(root, size, <<w(2)>>).ret

\* ---------------------------------------------------------------------- C8
\* C8: reads have no side effects: hasSync, getSync and a matchSync consumed to
\* its end leave the tree and the size as they were, whatever the argument.
C8_ReadsChangeNothing ==
  /\ \A path \in Paths :
       LET r1 == Trie_hasSync(root, size, path)
           r2 == Trie_getSync(root, size, path)
       IN  Graph(r1) = root /\ r1.size = size /\ Graph(r2) = root /\ r2.size = size
  /\ \A t \in Inputs :
       LET r3 == Trie_matchSync(root, size, t)
       IN  Graph(r3) = root /\ r3.size = size

\* a trie on which one lookup succeeds, one fails on a missing literal edge
\* and one fails on a wildcard count that ends inside a run
C8_Witness ==
  /\ Has(root, <<Lit(1), w(2)>>)
  /\ ~Has(root, <<Lit(1), Lit(1)>>)
  /\ ~Has(root, <<Lit(1), w(1)>>)
  /\ root[root[1].lit[1]].wild # 0
  /\ root[root[root[1].lit[1]].wild].cnt = 2

\* ---------------------------------------------------------------------- C9
\* C9: split/merge round-trip: a trie built from empty by set(X + w(k), a) and
\* set(X + w(n), b), k < n, becomes by delete(X + w(k)) a trie of size 1 equal
\* to the one set(X + w(n), b) alone builds.
EmptyTrie == <<NewMap>>

LiteralPrefixes == {p \in Paths : \A i \in 1..Len(p) : ~isWildcardSegment(p[i])}

C9_SplitMergeRoundTrip ==
  \A x \in LiteralPrefixes, k \in 1..MaxLen, n \in 1..MaxLen, a \in Values, b \in Values :
    (k < n /\ Append(x, w(n)) \in Paths) =>
      LET s1 == Trie_setSync(EmptyTrie, 0, Append(x, w(k)), a)
          s2 == Trie_setSync(s1.h, s1.size, Append(x, w(n)), b)
          alone == Trie_setSync(EmptyTrie, 0, Append(x, w(n)), b)
      IN  (root = Graph(s2) /\ size = s2.size) =>
            LET d == Trie_deleteSync(root, size, Append(x, w(k)))
            IN  d.ret /\ d.size = 1 /\ Graph(d) = Graph(alone)

\* the trie built by set([1, w(1)], a) and set([1, w(2)], b): the run is split
C9_Witness ==
  /\ size = 2
  /\ Len(root) = 4
  /\ Get(root, <<Lit(1), w(1)>>) = "a"
  /\ Get(root, <<Lit(1), w(2)>>) = "b"

\* --------------------------------------------------------------------- C10
\* C10: match order: matchSync yields the matching entries in depth-first
\* order, a node's own value first, then the values below its wildcard edge,
\* then the values below the literal edge of the pulled token; of two matching
\* logical paths the one that is a prefix of the other comes first, and
\* otherwise the one with the wildcard where they first differ.
ComesBefore(e1, e2) ==
  \/ Len(e1) < Len(e2) /\ \A i \in 1..Len(e1) : e1[i] = e2[i]
  \/ \E i \in 1..Len(e1) :
       /\ i <= Len(e2)
       /\ \A j \in 1..(i - 1) : e1[j] = e2[j]
       /\ e1[i].wild /\ ~e2[i].wild

RECURSIVE InOrder(_)
InOrder(m) ==
  IF m = {} THEN <<>>
  ELSE LET first == CHOOSE e \in m : \A f \in m \ {e} : ComesBefore(e, f)
       IN  <<first>> \o InOrder(m \ {first})

Shape(g) == [i \in DOMAIN g |-> [g[i] EXCEPT !.data = Undef]]

\* C11: size accounting on insertion: setSync(P, v) and addSync([[P, v]]) add 1
\* to size when no value is stored for the logical path P, and otherwise leave
\* size and the shape of the tree as they were and replace the value only; a
\* second set of P leaves size as the first set left it.
C11_InsertSizeAccounting ==
  \A path \in Paths, v1 \in Values, v2 \in Values :
    LET s1 == Trie_setSync(root, size, path, v1)
        a1 == Trie_addSync(root, size, <<[path |-> path, value |-> v1]>>)
        s2 == Trie_setSync(s1.h, s1.size, path, v2)
        a2 == Trie_addSync(root, size, <<[path |-> path, value |-> v1],
                                         [path |-> path, value |-> v2]>>)
    IN  /\ s1.size = IF Has(root, path) THEN size ELSE size + 1
        /\ Has(root, path) => Shape(Graph(s1)) = Shape(root)
        /\ Get(s1.h, path) = v1
        /\ a1.size = s1.size /\ Graph(a1) = Graph(s1)
        /\ s2.size = s1.size
        /\ Shape(Graph(s2)) = Shape(Graph(s1))
        /\ Get(s2.h, path) = v2
        /\ a2.size = s2.size /\ Graph(a2) = Graph(s2)

\* a trie of one entry w(2): a set of w(1) w(1) overwrites it, a set of w(1)
\* splits the run and adds an entry
C11_Witness ==
  /\ size = 1
  /\ Get(root, <<w(2)>>) = "a"
  /\ Trie_setSync(root, size, <<w(1), w(1)>>, "b").size = 1
  /\ Get(Trie_setSync(root, size, <<w(1), w(1)>>, "b").h, <<w(2)>>) = "b"
  /\ Trie_setSync(root, size, <<w(1)>>, "b").size = 2

\* --------------------------------------------------------------------- C12
\* C12: lookup exactness: in a trie built by insertions only, hasSync(P) is
\* true exactly when a value was stored for the logical path P, the value
\* undefined included; it is false for a strict prefix of a stored path, for a
\* split boundary that holds no terminal, for a run that ends inside a stored
\* run, for a path longer than the chain, and for a literal after a run of
\* another count than the stored one.
C12_LookupExact ==
  \A path \in Paths : Has(root, path) <=> Expand(path) \in stored

\* [w(1), 1] -> undefined and [w(2)] -> a are all that was stored: the run is
\* split at 1, the boundary holds no terminal, and hasSync is false for it,
\* for [w(3)], for [w(2), 1] and for [1]
C12_Witness ==
  /\ stored = {Expand(<<w(1), Lit(1)>>), Expand(<<w(2)>>)}
  /\ Has(root, <<w(1), Lit(1)>>) /\ Get(root, <<w(1), Lit(1)>>) = Undef
  /\ Get(root, <<w(2)>>) = "a"
  /\ Len(root) = 4
  /\ ~Has(root, <<w(1)>>)
  /\ ~Has(root, <<w(3)>>)
  /\ ~Has(root, <<w(2), Lit(1)>>)
  /\ ~Has(root, <<Lit(1)>>)

\* --------------------------------------------------------------------- C13
\* C13: insertion leaves every other entry intact: from every reachable trie,
\* after setSync(P, v) every stored path Q that is not the logical path P is
\* still stored, with the value it had, also when P ends inside a run on the
\* way to Q and the run node is split.
C13_InsertKeepsOthers ==
  \A p \in Paths, v \in Values :
    LET s == Trie_setSync(root, size, p, v)
    IN  \A q \in Paths :
          (Has(root, q) /\ ~SameLogical(p, q)) =>
            (Has(s.h, q) /\ Get(s.h, q) = Get(root, q))

\* [w(2), 1] -> a is stored below an unsplit run of 2: a set of [w(1)] splits
\* the run and the entry is still found
C13_Witness ==
  /\ Get(root, <<w(2), Lit(1)>>) = "a"
  /\ root[root[1].wild].cnt = 2
  /\ LET s == Trie_setSync(root, size, <<w(1)>>, "b")
     IN  /\ Reachable(s.h)[2].cnt = 1
         /\ Get(s.h, <<w(2), Lit(1)>>) = "a"

\* --------------------------------------------------------------------- C20
\* C20: setCallbackSync(P, cb) calls cb once, with (the value stored, true)
\* when a value is stored for the logical path P and with (undefined, false)
\* when none is, stores the result of cb as the value of P, and changes the
\* size and the tree as setSync of that result does.
C20_SetCallback ==
  \A path \in Paths, cb \in Callbacks :
    LET c == Trie_setCallbackSync(root, size, path, cb)
        result == CallbackApply(cb, Get(root, path), Has(root, path))
        s == Trie_setSync(root, size, path, result)
    IN  /\ c.calls = <<[prev |-> Get(root, path), exists |-> Has(root, path)]>>
        /\ ~Has(root, path) => c.calls[1].prev = Undef
        /\ Get(c.h, path) = result
        /\ c.size = (IF Has(root, path) THEN size ELSE size + 1)
        /\ Graph(c) = Graph(s)

\* [1, w(2)] -> a is stored: the callback that turns a into b, called on it
\* as [1, w(1), w(1)], is given (a, true) and stores b; called on [1, w(1)] it
\* is given (undefined, false) and stores a
C20_Witness ==
  /\ Get(root, <<Lit(1), w(2)>>) = "a"
  /\ ~Has(root, <<Lit(1), w(1)>>)
  /\ LET c == Trie_setCallbackSync(root, size, <<Lit(1), w(1), w(1)>>, "flip")
     IN  c.calls = <<[prev |-> "a", exists |-> TRUE]>> /\ Get(c.h, <<Lit(1), w(2)>>) = "b"
  /\ Trie_setCallbackSync(root, size, <<Lit(1), w(1)>>, "flip").calls
       = <<[prev |-> Undef, exists |-> FALSE]>>

\* ------------------------------------------------- the examples of matching
IsPrefix(a, b) == Len(a) <= Len(b) /\ \A i \in 1..Len(a) : a[i] = b[i]

\* a match of the input t in the trie that holds the entries given and no
\* other: begun, and consumed to its end
Begun(entries, t) ==
  stored = EntryPaths(entries) /\ input = t /\ consumer # "none"

Ended(entries, t) ==
  stored = EntryPaths(entries) /\ input = t /\ consumer = "finished"

\* the generator consumed to its end has yielded what traverseSync run to its
\* end yields, and has left the iterators as that run leaves them
StepsAgree ==
  consumer = "finished" =>
    LET r == Trie_matchSync(root, size, input)
    IN  yielded = r.ret /\ world = r.wd

C15_SixTokensYieldV3 ==
  Ended(ExampleEntries, Append(OneThen(4, 1), 2)) => yielded = <<"v3">>

\* C15 as amended: with the same entries stored, matching against 1 followed
\* by five tokens and then 2, [1,1,1,1,1,1,2], yields v3 and nothing else;
\* matching against [1,1,1,1,1,2] yields nothing.
C15_SevenTokensYieldV3 ==
  /\ Ended(ExampleEntries, Append(OneThen(5, 1), 2)) => yielded = <<"v3">>
  /\ Ended(ExampleEntries, Append(OneThen(4, 1), 2)) => yielded = <<>>

\* the match of [1,1,1,1,1,1,2] consumed to its end: v3 was yielded, and the
\* wildcard branch of the tee made at the end of the first run ended on the
\* end of the input
C15_Witness ==
  /\ Ended(ExampleEntries, Append(OneThen(5, 1), 2))
  /\ yielded = <<"v3">>
  /\ Len(world.tees) = 1 /\ world.tees[1].done

\* --------------------------------------------------------------------- C16
\* C16 as claimed: with the same four entries stored, matching against
\* [1,0,0,0,0,0,0,0,0,0] yields v4.
C16_TenTokensYieldV4 ==
  Ended(ExampleEntries, OneThen(9, 0)) => yielded = <<"v4">>

\* C16 as amended: with the same four entries stored, matching against 1
\* followed by ten tokens, [1,0,0,0,0,0,0,0,0,0,0], yields v4 and nothing
\* else; matching against [1,0,0,0,0,0,0,0,0,0] yields nothing.
C16_ElevenTokensYieldV4 ==
  /\ Ended(ExampleEntries, OneThen(10, 0)) => yielded = <<"v4">>
  /\ Ended(ExampleEntries, OneThen(9, 0)) => yielded = <<>>

\* the match of 1 and ten tokens 0 consumed to its end: v4 was yielded after
\* all eleven tokens were pulled, and no tee was made
C16_Witness ==
  /\ Ended(ExampleEntries, OneThen(10, 0))
  /\ yielded = <<"v4">>
  /\ world.pos = 11 /\ world.tees = <<>>

\* --------------------------------------------------------------------- C19
\* C19: when the consumer of matchSync stops before the generator has ended
\* (return() of the generator, as a break out of the for loop calls it after
\* a value was yielded) and the input has not answered done, return() of the
\* input iterator has been called once.
C19_AbandonCancelsOnce ==
  (consumer = "abandoned" /\ yielded # <<>> /\ ~world.srcDone) => world.returns = 1

\* --------------------------------------------------------------------- C17
\* the tokens next() of the iterator it gives from now on, up to its done
RECURSIVE Drain(_, _, _)
Drain(wd, t, it) ==
  LET r == iterNext(wd, t, it)
  IN  IF r.done THEN <<>> ELSE <<r.value>> \o Drain(r.wd, t, it)

\* the same of branch i of the asynchronous tee, the other branch standing
\* still: the branch is called, the read it awaits settles, it resumes
RECURSIVE AsyncDrain(_, _, _)
AsyncDrain(wd, t, i) ==
  IF wd.tees[1].ended[i] THEN <<>>
  ELSE IF wd.tees[1].waiting[i] = "pending"
  THEN AsyncDrain(readSettle(wd, t), t, i)
  ELSE LET r == branchRun(wd, t, i)
       IN  IF r.kind = "value" THEN <<r.value>> \o AsyncDrain(r.wd, t, i)
           ELSE AsyncDrain(r.wd, t, i)

Remaining(i) ==
  IF IsAsyncTee(world) THEN AsyncDrain(world, input, i)
  ELSE Drain(world, input, Cursor(i))

\* C17: stream splitting: whatever the order in which the two cursors of a tee
\* (teeIteratorSync, teeIterator) are advanced, each gives out the tokens of
\* the source in order, none lost and none twice; a cursor whose return() was
\* not called gives, advanced to its done, every remaining token of the
\* source and then done, whether the other cursor was closed, left behind or
\* run to its end.
C17_TeeCursorsSeeSource ==
  world.tees # <<>> =>
    \A i \in 1..2 :
      /\ IsPrefix(seen[i].tokens, input)
      /\ ~seen[i].returned =>
           /\ seen[i].tokens \o Remaining(i) = input
           /\ seen[i].done => seen[i].tokens = input

\* the two cursors of a teeIterator: cursor 1 was closed after its first
\* token; cursor 2 has given out the three tokens of the input and answered
\* done
C17_Witness ==
  /\ IsAsyncTee(world)
  /\ Len(input) = 3
  /\ seen[1].returned /\ Len(seen[1].tokens) = 1
  /\ seen[2].tokens = input /\ seen[2].done /\ ~seen[2].returned

\* --------------------------------------------------------------------- C18
\* C18: cancellation of a tee: once both cursors have stopped for good (each
\* closed by return() or run to its done), return() of the source has been
\* called once when the source had not answered done and not at all when it
\* had, in whatever order the cursors stopped, a cursor closed before its
\* first next() included.
C18_TeeCancelsOnce ==
  (world.tees # <<>> /\ world.tees[1].ended[1] /\ world.tees[1].ended[2]) =>
    world.returns = (IF world.srcDone THEN 0 ELSE 1)

\* --------------------------------------------------------------------- C21
\* C21: empty path: setSync([], v) puts v into the terminal slot of the root
\* and changes nothing else; matchSync of any input, the empty one included,
\* then yields v as its first value, and yields it before next() of the input
\* iterator is called.
C21_EmptyPathMatchesAll ==
  \A v \in Values :
    LET s == Trie_setSync(root, size, <<>>, v)
        g == Graph(s)
    IN  /\ g = [root EXCEPT ![1].hasData = TRUE, ![1].data = v]
        /\ \A t \in Inputs :
             LET first == traverseResume(NewWorld, t, g, <<NewFrame(1, SourceIt)>>)
                 all == Trie_matchSync(g, s.size, t).ret
             IN  /\ ~first.done /\ first.value = v
                 /\ first.wd.nexts = 0
                 /\ Len(all) >= 1 /\ all[1] = v

\* a trie with b on the empty path and a value on [1]: the empty input yields
\* b alone, the input [1] yields b and then the other value
C21_Witness ==
  /\ root[1].hasData /\ Get(root, <<>>) = "b"
  /\ Get(root, <<Lit(1)>>) = "a"
  /\ Trie_matchSync(root, size, <<>>).ret = <<"b">>
  /\ Trie_matchSync(root, size, <<1>>).ret = <<"b", "a">>

\* --------------------------------------------------------------------- C22
\* C22: clear() from any reachable trie leaves the trie a new Trie() is: the
\* root without edge and without terminal, size 0, hasSync false for every
\* path, matchSync without a value for every input; a setSync after it gives
\* the tree, the size and the answer it gives on a new trie.
C22_ClearIsNew ==
  LET c == Trie_clear(root, size)
      new == Trie_addSync(<<NewMap>>, 0, <<>>)
  IN  /\ Graph(c) = <<NewMap>>
      /\ Graph(c) = Graph(new)
      /\ c.size = 0 /\ c.size = new.size
      /\ \A p \in Paths : ~Trie_hasSync(c.h, c.size, p).ret
      /\ \A t \in Inputs : Trie_matchSync(c.h, c.size, t).ret = <<>>
      /\ \A p \in Paths, v \in Values :
           LET a == Trie_setSync(c.h, c.size, p, v)
               b == Trie_setSync(new.h, new.size, p, v)
           IN  Graph(a) = Graph(b) /\ a.size = b.size /\ a.ret = b.ret

\* a full trie (a value on the empty path, three values, four nodes) that
\* clear() empties
C22_Witness ==
  /\ size = MaxSize /\ Len(root) = MaxNodes /\ root[1].hasData
  /\ Cardinality(Stored(root)) = MaxSize
  /\ Trie_clear(root, size).size = 0
  /\ Stored(Trie_clear(root, size).h) = {}

\* --------------------------------------------------------------------- C23
\* C23: wildcard count normalization: w(c) is the wildcard segment of count c
\* when c is a positive safe integer, and the one of count 1 when c is
\* omitted, zero, negative or not a safe integer; every call gives a segment,
\* so every wildcard segment of a path given to the trie, and every run length
\* stored in the trie, is at least 1.
C23_WildcardCountNormalized ==
  /\ \A c \in -1..(MaxLen + 1) :
       /\ isWildcardSegment(wCall(<<SafeInteger(c)>>))
       /\ wCall(<<SafeInteger(c)>>).count = IF c > 0 THEN c ELSE 1
       /\ w(c) = wCall(<<SafeInteger(c)>>)
  /\ isWildcardSegment(wCall(<<>>)) /\ wCall(<<>>).count = 1
  /\ \A x \in NotSafeIntegers :
       isWildcardSegment(wCall(<<x>>)) /\ wCall(<<x>>).count = 1
  /\ \A segment \in Segments : isWildcardSegment(segment) => segment.count >= 1
  /\ \A i \in DOMAIN root : root[i].hasCnt => root[i].cnt >= 1

\* a trie that holds values on w(0) and on w(3): the first under a run of
\* length 1, as w(), w(-1) and w(NaN) are too
C23_Witness ==
  /\ Get(root, <<w(0)>>) = "a" /\ Get(root, <<w(3)>>) = "b"
  /\ Get(root, <<wCall(<<>>)>>) = "a"
  /\ Get(root, <<w(-1)>>) = "a"
  /\ Get(root, <<wCall(<<NotSafeInteger("NaN")>>)>>) = "a"
  /\ root[1].wild # 0 /\ root[root[1].wild].cnt = 1
  /\ size = 2

\* --------------------------------------------------------------------- C24
\* C24: canonical minimal tree: in every reachable trie every node other than
\* the root holds a terminal or has an outgoing edge, and no wildcard count
\* node is left with a wildcard edge as its only content (neither terminal
\* nor literal edge beside it).
NodeEmpty(n) == ~n.hasData /\ n.wild = 0 /\ DOMAIN n.lit = {}

NodeOnlyWildcard(n) == ~n.hasData /\ n.wild # 0 /\ DOMAIN n.lit = {}

C24_CanonicalTree ==
  /\ \A i \in DOMAIN root : i # 1 => ~NodeEmpty(root[i])
  /\ \A i \in DOMAIN root :
       isWildcardCountNode(root[i]) => ~NodeOnlyWildcard(root[i])

\* a trie left by deleteSync([1, w(1)]) after values were set on [1, w(1)]
\* and on [1, w(2)]: the two runs of length 1 are one run of length 2 again
C24_Witness ==
  /\ size = 1 /\ Len(root) = 3 /\ Get(root, <<Lit(1), w(2)>>) = "a"
  /\ LET s == Trie_setSync(root, size, <<Lit(1), w(1)>>, "b")
     IN  /\ Len(Graph(s)) = 4
         /\ Graph(Trie_deleteSync(s.h, s.size, <<Lit(1), w(1)>>)) = root

\* --------------------------------------------------------------------- C25
\* the wildcard chain below node a followed for a run of length p: when the run
\* ends strictly inside a node, that node, the node whose wildcard edge leads
\* to it and the part of its length before the end of the run; node is 0 when
\* the run ends at a node boundary or beyond the chain
RECURSIVE RunInside(_, _, _)
RunInside(h, a, p) ==
  LET b == h[a].wild
  IN  IF b = 0 \/ h[b].cnt = p THEN [parent |-> a, node |-> 0, before |-> p]
      ELSE IF h[b].cnt < p THEN RunInside(h, b, p - h[b].cnt)
      ELSE [parent |-> a, node |-> b, before |-> p]

\* the paths that do not end, and the paths that do not begin, with a wildcard
EndLiteral == {x \in Paths : x = <<>> \/ ~isWildcardSegment(x[Len(x)])}

BeginLiteral == {y \in Paths : y = <<>> \/ ~isWildcardSegment(y[1])}

WildcardRuns ==
  {r \in Paths : r # <<>> /\ \A i \in 1..Len(r) : isWildcardSegment(r[i])}

\* the nodes a path hung below a new node makes: one for each literal segment
\* and one for each run of wildcard segments
NewNodes(y) ==
  Cardinality({i \in 1..Len(y) :
     ~isWildcardSegment(y[i]) \/ i = 1 \/ ~isWildcardSegment(y[i - 1])})

\* the tree of [2, w(5), 3] -> a and then [2, w(3), 4] -> b:
\* 2 -> *(3) { 4 -> b, *(2) { 3 -> a } }
SplitExample ==
  <<MapSet(NewMap, 2, 2),
    [NewMap EXCEPT !.wild = 3],
    MapSet([NewMap EXCEPT !.hasCnt = TRUE, !.cnt = 3, !.wild = 4], 4, 6),
    MapSet([NewMap EXCEPT !.hasCnt = TRUE, !.cnt = 2], 3, 5),
    [NewMap EXCEPT !.hasData = TRUE, !.data = "a"],
    [NewMap EXCEPT !.hasData = TRUE, !.data = "b"]>>

\* C25: run split shape: setSync of a path x + run + y, where x ends at an
\* existing node and the run of length p ends strictly inside the run node B
\* of length n below it, B being the wildcard child of A, makes one new node
\* N with the length before the end of the run, puts N on the wildcard edge
\* of A and B on the wildcard edge of N, leaves B the rest of the length (the
\* two lengths summing to n) and its literal edges, wildcard edge and
\* terminal, and changes no other node; the rest of the path hangs below N.
\* The example of [2, w(5), 3] and [2, w(3), 4] gives SplitExample.
C25_RunSplitShape ==
  /\ \A x \in EndLiteral, run \in WildcardRuns, y \in BeginLiteral, v \in Values :
       LET path == x \o run \o y
           at == hardSeekSync(root, x)
           in == RunInside(root, at.node, PathLen(run))
           A == in.parent
           B == in.node
           N == Len(root) + 1
           s == Trie_setSync(root, size, path, v)
       IN  (path \in Paths /\ at.h = root /\ B # 0) =>
             /\ Len(s.h) = N + NewNodes(y)
             /\ s.h[A] = [root[A] EXCEPT !.wild = N]
             /\ s.h[N].hasCnt /\ s.h[N].cnt = in.before /\ s.h[N].wild = B
             /\ s.h[B] = [root[B] EXCEPT !.cnt = root[B].cnt - in.before]
             /\ s.h[N].cnt + s.h[B].cnt = root[B].cnt
             /\ \A i \in DOMAIN root \ {A, B} : s.h[i] = root[i]
             /\ IF y = <<>>
                THEN /\ s.h[N].hasData /\ s.h[N].data = v
                     /\ DOMAIN s.h[N].lit = {}
                ELSE /\ ~s.h[N].hasData
                     /\ DOMAIN s.h[N].lit = {y[1].key}
                     /\ s.h[N].lit[y[1].key] = N + 1
  /\ LET s1 == Trie_setSync(EmptyTrie, 0, <<Lit(2), w(5), Lit(3)>>, "a")
         s2 == Trie_setSync(s1.h, s1.size, <<Lit(2), w(3), Lit(4)>>, "b")
     IN  Graph(s2) = SplitExample /\ s2.size = 2

\* a trie *(1) -> a, *(1) -> *(2) -> a in which setSync([w(2)], b) splits the
\* second run node of the chain
C25_Witness ==
  /\ Len(root) = 3 /\ size = 2 /\ root[2].cnt = 1 /\ root[3].cnt = 2
  /\ Get(root, <<w(1)>>) = "a" /\ Get(root, <<w(3)>>) = "a"
  /\ RunInside(root, 1, 2) = [parent |-> 2, node |-> 3, before |-> 1]
  /\ LET s == Trie_setSync(root, size, <<w(2)>>, "b")
     IN  /\ Len(s.h) = 4 /\ s.h[2].wild = 4 /\ s.h[4].wild = 3
         /\ s.h[4].cnt = 1 /\ s.h[3].cnt = 1 /\ s.h[4].data = "b"

\* --------------------------------------------------------------------- C26
\* the logical path the edges from the root to node i spell: a literal edge is
\* its key, a wildcard edge as many wildcards as the count of its target
RECURSIVE TreePath(_, _)
TreePath(h, i) ==
  IF i = 1 THEN <<>>
  ELSE LET j == CHOOSE j \in DOMAIN h :
                  h[j].wild = i \/ \E k \in DOMAIN h[j].lit : h[j].lit[k] = i
       IN  TreePath(h, j) \o
             (IF h[j].wild = i
              THEN [n \in 1..h[i].cnt |-> w(1)]
              ELSE <<Lit(CHOOSE k \in DOMAIN h[j].lit : h[j].lit[k] = i)>>)

TerminalPaths(h) == {TreePath(h, i) : i \in Terminals(h)}

RunLengthsWellFormed(h) ==
  /\ \A i \in DOMAIN h : h[i].hasCnt <=> \E j \in DOMAIN h : h[j].wild = i
  /\ \A i \in DOMAIN h : h[i].hasCnt => h[i].cnt >= 1
  /\ ~h[1].hasCnt

OrderExample ==
  <<MapSet(NewMap, 1, 2),
    [NewMap EXCEPT !.wild = 3],
    [NewMap EXCEPT !.hasCnt = TRUE, !.cnt = 2, !.wild = 4,
                   !.hasData = TRUE, !.data = "a"],
    [NewMap EXCEPT !.hasCnt = TRUE, !.cnt = 3, !.hasData = TRUE, !.data = "b"]>>

\* the trie the insertions of the logical paths S, each with the value it has
\* in h, build from the empty trie in one order
RECURSIVE BuildFrom(_, _)
BuildFrom(S, h) ==
  IF S = {} THEN [h |-> EmptyTrie, size |-> 0, ret |-> Undef]
  ELSE LET e == CHOOSE e \in S : TRUE
           rest == BuildFrom(S \ {e}, h)
       IN  Trie_setSync(rest.h, rest.size, e, Get(h, e))

\* C27: insertion order independence: whatever the order in which the
\* insertions that built the trie from the empty one came, the tree and the
\* size are the ones the insertion of the stored logical paths with their
\* values in one fixed order builds; [1, w(2)] then [1, w(5)], and the
\* reverse, both give OrderExample.
C27_InsertionOrderIndependent ==
  /\ root = Graph(BuildFrom(stored, root))
  /\ size = BuildFrom(stored, root).size
  /\ LET s1 == Trie_setSync(EmptyTrie, 0, <<Lit(1), w(2)>>, "a")
         s2 == Trie_setSync(s1.h, s1.size, <<Lit(1), w(5)>>, "b")
         r1 == Trie_setSync(EmptyTrie, 0, <<Lit(1), w(5)>>, "b")
         r2 == Trie_setSync(r1.h, r1.size, <<Lit(1), w(2)>>, "a")
     IN  /\ Graph(s2) = OrderExample /\ Graph(r2) = OrderExample
         /\ s2.size = 2 /\ r2.size = 2

\* [w(1)] -> a, [w(2)] -> a and [w(3)] -> b were stored, and the tree is
\* the one the three insertions build from the empty trie in another order,
\* in which the run of [w(3)] is split twice
C27_Witness ==
  /\ stored = {Expand(<<w(1)>>), Expand(<<w(3)>>), Expand(<<w(2)>>)}
  /\ size = 3 /\ Len(root) = 4
  /\ LET s1 == Trie_setSync(EmptyTrie, 0, <<w(3)>>, "b")
         s2 == Trie_setSync(s1.h, s1.size, <<w(2)>>, "a")
         s3 == Trie_setSync(s2.h, s2.size, <<w(1)>>, "a")
         r1 == Trie_setSync(EmptyTrie, 0, <<w(1)>>, "a")
         r2 == Trie_setSync(r1.h, r1.size, <<w(2)>>, "a")
         r3 == Trie_setSync(r2.h, r2.size, <<w(3)>>, "b")
     IN  root = Graph(s3) /\ root = Graph(r3) /\ s3.h # r3.h

\* --------------------------------------------------------------------- C28
\* the trie of the matching examples, in which a match splits its input at
\* the node below 1 and again inside the run of wildcards
ExampleTrie == Trie_addSync(EmptyTrie, 0, ExampleEntries)

\* the calls of next() of the source that have not been answered: each call
\* answered gave out one token or, once, done
PullsOutstanding(wd) == wd.nexts - wd.pos - (IF wd.srcDone THEN 1 ELSE 0)

\* an input that matches both edges of the node below 1 and, five tokens on,
\* both edges of the run node: the second split is made on a branch of the
\* first
NestedInput == <<1, 2, 0, 0, 0, 0, 2, 0, 0, 0, 0>>

\* a tee whose upstream is a branch of another tee
NestedSplit(wd) == \E k \in DOMAIN wd.tees : wd.tees[k].up.tee # 0

\* C28: single pull per token: however the cursors of a tee are advanced,
\* every call of next() of the source gives out the next token or the first
\* done (no token is pulled twice, next() is not called after done); in
\* teeIterator at most one call is unanswered at any time, and it is while
\* reading is set, a cursor that reaches the end of the buffer meanwhile
\* awaiting it; a matchSync of the example trie, with its nested splits, calls
\* next() once for each token it reads and at most once more.
C28_SinglePullPerToken ==
  /\ world.pos <= Len(input)
  /\ \A k \in DOMAIN world.tees : Len(world.tees[k].buf) <= world.pos
  /\ IF IsAsyncTee(world)
     THEN /\ PullsOutstanding(world) \in {0, 1}
          /\ PullsOutstanding(world) = 1 <=> world.tees[1].reading
          /\ \A i \in 1..2 :
               world.tees[1].waiting[i] = "pending" => world.tees[1].reading
     ELSE PullsOutstanding(world) = 0
  /\ \A t \in MatchInputs \cup Inputs \cup {NestedInput} :
       LET wd == Trie_matchSync(ExampleTrie.h, ExampleTrie.size, t).wd
       IN  /\ wd.pos <= Len(t)
           /\ PullsOutstanding(wd) = 0
           /\ \A k \in DOMAIN wd.tees : Len(wd.tees[k].buf) <= wd.pos

\* both cursors of a teeIterator await the one read in flight, after one token
\* was given to each; and on the example trie the matchSync of NestedInput
\* yields v4, v3 and v1 through nested splits, having read the eleven tokens
\* and done
C28_Witness ==
  /\ IsAsyncTee(world) /\ world.tees[1].reading
  /\ world.tees[1].waiting = <<"pending", "pending">>
  /\ world.nexts = 2 /\ world.pos = 1
  /\ Len(seen[1].tokens) = 1 /\ Len(seen[2].tokens) = 1
  /\ LET r == Trie_matchSync(ExampleTrie.h, ExampleTrie.size, NestedInput)
     IN  /\ r.ret = <<"v4", "v3", "v1">>
         /\ NestedSplit(r.wd) /\ r.wd.pos = 11 /\ r.wd.nexts = 12 /\ r.wd.srcDone

\* --------------------------------------------------------------------- C29
\* the seek states resolveNode is called with during hardSeekSync(h, path):
\* before each literal segment (hardSeekStep) and after the last segment
ResolveCalls(h, path) ==
  LET start == [h |-> h, node |-> 1, parentNode |-> 0,
                nodeWildcardCount |-> 0, pathWildcardCount |-> 0]
      before(i) == hardSeekLoop(start, SubSeq(path, 1, i - 1), 1)
  IN  {before(i) : i \in {j \in 1..Len(path) : ~isWildcardSegment(path[j])}}
        \cup {hardSeekLoop(start, path, 1)}

\* the shrink branch of resolveNode is taken from st
Shrinks(st) == st.nodeWildcardCount > st.pathWildcardCount

ShrinkPrecondition(st) ==
  LET excess == st.nodeWildcardCount - st.pathWildcardCount
  IN  /\ isWildcardCountNode(st.h[st.node])
      /\ st.h[st.node].cnt > excess
      /\ st.parentNode # 0
      /\ st.h[st.parentNode].wild = st.node

\* the state the if statement of cleanUp is reached with in deleteSync(path)
\* of a stored path: its while loop has run
MergeCall(h, path) ==
  LET r == softSeekSync(h, path, TRUE)
      h1 == [r.h EXCEPT ![r.node].hasData = FALSE, ![r.node].data = Undef]
  IN  cleanUpPrune([h |-> h1, node |-> r.node, stack |-> r.stack])

\* the merge branch of cleanUp is taken from c
Merges(c) ==
  ~c.h[c.node].hasData /\ c.h[c.node].wild # 0 /\ isWildcardCountNode(c.h[c.node])

MergePrecondition(c) ==
  /\ Len(c.stack) > 0
  /\ c.stack[Len(c.stack)].wild
  /\ c.h[c.stack[Len(c.stack)].node].wild = c.node

\* C29: resolver precondition: in every insertion into a reachable trie, when
\* resolveNode takes the shrink branch the current node is a wildcard count
\* node whose count is greater than the excess, and parentNode is set and is
\* the node whose wildcard edge points to the current node; in every
\* deleteSync, when cleanUp takes the merge branch the stack is not empty and
\* its top entry is the wildcard edge into the merged node.
C29_ResolverPrecondition ==
  \A path \in Paths :
    /\ \A st \in ResolveCalls(root, path) : Shrinks(st) => ShrinkPrecondition(st)
    /\ Has(root, path) =>
         (Merges(MergeCall(root, path)) => MergePrecondition(MergeCall(root, path)))

\* *(1) -> a, *(1) -> *(2) -> 1 -> a: setSync([w(2)]) shrinks the second run
\* node with parentNode the first, and deleteSync([w(1)]) merges the first
\* run node with the stack holding the wildcard edge of the root
C29_Witness ==
  /\ Len(root) = 4 /\ Has(root, <<w(1)>>) /\ Has(root, <<w(3)>>)
  /\ Has(root, <<w(1), Lit(1)>>)
  /\ \E st \in ResolveCalls(root, <<w(2)>>) :
       Shrinks(st) /\ st.node = 3 /\ st.parentNode = 2 /\ ShrinkPrecondition(st)
  /\ LET d == Trie_deleteSync(root, size, <<w(1), Lit(1)>>)
         c == MergeCall(d.h, <<w(1)>>)
     IN  /\ Merges(c) /\ c.node = 2 /\ MergePrecondition(c)
         /\ c.stack = <<[wild |-> TRUE, key |-> 0, node |-> 1]>>

\* --------------------------------------------------------------------- C30
\* cursor i of the asynchronous tee awaits a read
Awaits(i) == IsAsyncTee(world) /\ world.tees[1].waiting[i] # "no"

\* C30: termination of matching: a consumer that keeps calling next() of
\* matchSync receives done (unless it abandons the match), whatever the trie
\* of the examples and the input; when it does, every traversal frame has
\* ended; a cursor of teeIterator that awaits a read is resumed, also when
\* the other cursor has ended or the source is exhausted, and it never awaits
\* once the tee has seen the end of the source with no read in flight.
C30_MatchTerminates ==
  /\ (consumer = "iterating") ~> (consumer \in {"finished", "abandoned"})
  /\ [](consumer = "finished" => frames = <<>>)
  /\ \A i \in 1..2 : Awaits(i) ~> ~Awaits(i)
  /\ [](\A i \in 1..2 :
          (Awaits(i) /\ world.tees[1].waiting[i] = "pending") => world.tees[1].reading)

\* the match of the four example entries against 1, five times 1 and 2 has
\* run to its end through a split inside the run of wildcards, v3 yielded
C30_Witness ==
  /\ consumer = "finished" /\ input = Append(OneThen(5, 1), 2)
  /\ size = 4 /\ yielded = <<"v3">>
  /\ world.srcDone /\ Len(world.tees) = 1
  /\ frames = <<>>
====
